---- MODULE Spec2Model ----
(***************************************************************************)
(* A model of the rust-raytracer crate: tuples, matrices, intersections,   *)
(* hit resolution, the recursive shading pipeline of World and the render  *)
(* loop of Camera.                                                         *)
(*                                                                         *)
(* Numbers.  The crate computes in f64.  The model computes exactly:       *)
(*   - lengths (coordinates of points, the ray parameter t) are integers   *)
(*     that count grid steps of size OVER_POINT_EPSILON; the length 1.0    *)
(*     is One grid steps;                                                  *)
(*   - directions, normals and matrix entries of the linear part are       *)
(*     plain integers;                                                     *)
(*   - colours and material coefficients are exact fractions <<n, d>>.     *)
(* Inputs are drawn from sets on which every square root the code takes    *)
(* is the root of a perfect square, so no rounding is modelled or needed.  *)
(***************************************************************************)
EXTENDS Integers, Sequences, FiniteSets, TLC

VARIABLES
    pc,             \* position of the running operation
    intersections,  \* hit: the argument list
    hitResult,      \* hit: the returned Option<Intersection>
    m4,             \* matrix: the receiver of inverse (entries in units of 2^-mexp)
    mexp,           \* matrix: binary exponent of the entries of m4
    mA,             \* matrix: the left factor A of (A * B) * inverse(B)
    invResult,      \* matrix: the returned Result<Mat4x4, &str>
    product,        \* matrix: (mA * m4) * inverse(m4), numerators over den
    prepTarget,     \* prepare_computations_with_intersections: intersection
    prepRay,        \* prepare_computations_with_intersections: ray
    prepXs,         \* prepare_computations_with_intersections: intersections
    walkPos,        \* index in prepXs of the next i of the for loop
    walkState,      \* the locals containers, n1, n2
    prepComps,      \* the returned Comps
    prepFrom,       \* who built the list: a caller with a list of its own, or color_at
    prepShapes,     \* the shapes that the list refers to
    prepIds,        \* for each entry of the list, which of the shapes it refers to
    prepTargetId,   \* which of the shapes the target refers to
    walkIds,        \* for each container, which of the shapes it is a copy of
    selfWorld,      \* World::intersect: self
    argRay,         \* World::intersect: ray
    retXs,          \* World::intersect: the returned Vec<Intersection>
    litArgs,        \* Material::lighting: the arguments
    litResult,      \* Material::lighting: the returned Color
    traceWorld,     \* color_at: self
    traceRay,       \* color_at: ray of the outermost call
    traceRemaining, \* color_at: remaining of the outermost call
    stack,          \* the color_at calls in progress, the innermost last
    calls,          \* the number of color_at calls made so far
    steps,          \* the number of steps the trace has taken
    shaded,         \* the last call whose shade_hit returned, with its colour, if any
    returned,       \* the colour returned by the last call that returned, if any
    camera,         \* render: self, the hsize and vsize of the camera
    traced,         \* render: the colour color_at returns for each pixel's ray
    image,          \* render: the canvas
    renderX,        \* render: x of the inner loop
    renderY,        \* render: y of the outer loop
    written,        \* render: how often set_pixel has written each cell
    shadowWorld,    \* is_shadowed: self
    shadowPoint,    \* is_shadowed: p
    shadowResult,   \* is_shadowed: the returned bool
    tupA,           \* tuple.rs: self of add, sub, cross
    tupB,           \* tuple.rs: other / rhs
    tupOp,          \* tuple.rs: the operation called
    tupResult,      \* tuple.rs: the returned Tuple
    sphShape,       \* ShapeIntersectionHandler::intersect: the sphere (shape_info, transform)
    sphRay,         \* ShapeIntersectionHandler::intersect: ray
    sphXs,          \* ShapeIntersectionHandler::intersect: the returned Vec<Intersection>
    canvasArgs,     \* the width and height that Canvas::new was given
    canvasPixels,   \* Canvas: pixels
    lastSet,        \* the colour last given to set_pixel for each cell, black before
    setCount,       \* the number of set_pixel calls so far
    gotPixel,       \* get_pixel: the arguments and the returned Color
    ppm,            \* to_ppm: the returned text, line by line
    taskCamera,     \* the pixel computations of render: self
    taskTraced,     \* the colour color_at returns for each pixel's ray
    taskImage,      \* the canvas the pixel computations write to
    pending,        \* the pixel computations of the loops not yet run
    trShift,        \* translate: the arguments x, y, z
    trTuple,        \* the point or vector p
    trMoved,        \* translate(x, y, z) * p
    trBack,         \* inverse(translate(x, y, z)) * (translate(x, y, z) * p)
    types,          \* ShapeHandler: types
    transforms,     \* ShapeHandler: transforms
    materials,      \* ShapeHandler: materials
    lastOp,         \* the last call on the ShapeHandler and its id
    given,          \* for each id, the material that the calls on that id have given it
    opCount,        \* the number of calls so far
    applied,        \* for each id, the transforms that add_transform was given, in call order
    created,        \* the ids that create_sphere has returned, in call order
    callTransform,  \* the transform of the shape or of the camera of the call
    callOp,         \* the function called: intersect, normal or ray_for_pixel
    callArg,        \* the argument of the call: a ray, a point or a pixel
    callValue,      \* the value the call returned, if it returned
    callPanic       \* the panic that ended the call, if it panicked

hitVars == <<intersections, hitResult>>
matVars == <<m4, mexp, mA, invResult, product>>
prepVars == <<prepTarget, prepRay, prepXs, walkPos, walkState, prepComps, prepFrom,
    prepShapes, prepIds, prepTargetId, walkIds>>
worldVars == <<selfWorld, argRay, retXs>>
litVars == <<litArgs, litResult>>
traceVars == <<traceWorld, traceRay, traceRemaining, stack, calls, steps, shaded, returned>>
renderVars == <<camera, traced, image, renderX, renderY, written>>
shadowVars == <<shadowWorld, shadowPoint, shadowResult>>
tupleVars == <<tupA, tupB, tupOp, tupResult>>
sphereVars == <<sphShape, sphRay, sphXs>>
canvasVars == <<canvasArgs, canvasPixels, lastSet, setCount, gotPixel, ppm>>
taskVars == <<taskCamera, taskTraced, taskImage, pending>>
trVars == <<trShift, trTuple, trMoved, trBack>>
handlerVars == <<types, transforms, materials, lastOp, given, opCount, applied, created>>
unwrapVars == <<callTransform, callOp, callArg, callValue, callPanic>>
vars == <<pc, hitVars, matVars, prepVars, worldVars, litVars, traceVars, renderVars,
    shadowVars, tupleVars, sphereVars, canvasVars, taskVars, trVars, handlerVars,
    unwrapVars>>

\* the variables of the other harnesses
exceptHit == <<matVars, prepVars, worldVars, litVars, traceVars, renderVars, shadowVars,
    tupleVars, sphereVars, canvasVars, taskVars, trVars, handlerVars, unwrapVars>>
exceptMatrix == <<hitVars, prepVars, worldVars, litVars, traceVars, renderVars, shadowVars,
    tupleVars, sphereVars, canvasVars, taskVars, trVars, handlerVars, unwrapVars>>
exceptPrepare == <<hitVars, matVars, worldVars, litVars, traceVars, renderVars, shadowVars,
    tupleVars, sphereVars, canvasVars, taskVars, trVars, handlerVars, unwrapVars>>
exceptWorld == <<hitVars, matVars, prepVars, litVars, traceVars, renderVars, shadowVars,
    tupleVars, sphereVars, canvasVars, taskVars, trVars, handlerVars, unwrapVars>>
exceptLighting == <<hitVars, matVars, prepVars, worldVars, traceVars, renderVars,
    shadowVars, tupleVars, sphereVars, canvasVars, taskVars, trVars, handlerVars,
    unwrapVars>>
exceptTrace == <<hitVars, matVars, prepVars, worldVars, litVars, renderVars, shadowVars,
    tupleVars, sphereVars, canvasVars, taskVars, trVars, handlerVars, unwrapVars>>
exceptRender == <<hitVars, matVars, prepVars, worldVars, litVars, traceVars, shadowVars,
    tupleVars, sphereVars, canvasVars, taskVars, trVars, handlerVars, unwrapVars>>
exceptShadow == <<hitVars, matVars, prepVars, worldVars, litVars, traceVars, renderVars,
    tupleVars, sphereVars, canvasVars, taskVars, trVars, handlerVars, unwrapVars>>
exceptTuple == <<hitVars, matVars, prepVars, worldVars, litVars, traceVars, renderVars,
    shadowVars, sphereVars, canvasVars, taskVars, trVars, handlerVars, unwrapVars>>
exceptSphere == <<hitVars, matVars, prepVars, worldVars, litVars, traceVars, renderVars,
    shadowVars, tupleVars, canvasVars, taskVars, trVars, handlerVars, unwrapVars>>
exceptCanvas == <<hitVars, matVars, prepVars, worldVars, litVars, traceVars, renderVars,
    shadowVars, tupleVars, sphereVars, taskVars, trVars, handlerVars, unwrapVars>>
exceptTasks == <<hitVars, matVars, prepVars, worldVars, litVars, traceVars, renderVars,
    shadowVars, tupleVars, sphereVars, canvasVars, trVars, handlerVars, unwrapVars>>
exceptTransform == <<hitVars, matVars, prepVars, worldVars, litVars, traceVars, renderVars,
    shadowVars, tupleVars, sphereVars, canvasVars, taskVars, handlerVars, unwrapVars>>
exceptHandler == <<hitVars, matVars, prepVars, worldVars, litVars, traceVars, renderVars,
    shadowVars, tupleVars, sphereVars, canvasVars, taskVars, trVars, unwrapVars>>
exceptUnwrap == <<hitVars, matVars, prepVars, worldVars, litVars, traceVars, renderVars,
    shadowVars, tupleVars, sphereVars, canvasVars, taskVars, trVars, handlerVars>>

\* The value of a variable that the running harness does not use.
Idle == <<>>

IdleHit ==
    /\ intersections = Idle /\ hitResult = Idle

IdleMatrix ==
    /\ m4 = Idle /\ mexp = Idle /\ mA = Idle /\ invResult = Idle /\ product = Idle

IdlePrepare ==
    /\ prepTarget = Idle /\ prepRay = Idle /\ prepXs = Idle /\ walkPos = Idle
    /\ walkState = Idle /\ prepComps = Idle /\ prepFrom = Idle /\ prepShapes = Idle
    /\ prepIds = Idle /\ prepTargetId = Idle /\ walkIds = Idle

IdleWorld ==
    /\ selfWorld = Idle /\ argRay = Idle /\ retXs = Idle

IdleLighting ==
    /\ litArgs = Idle /\ litResult = Idle

IdleTrace ==
    /\ traceWorld = Idle /\ traceRay = Idle /\ traceRemaining = Idle /\ stack = Idle
    /\ calls = Idle /\ steps = Idle /\ shaded = Idle /\ returned = Idle

IdleRender ==
    /\ camera = Idle /\ traced = Idle /\ image = Idle /\ renderX = Idle /\ renderY = Idle
    /\ written = Idle

IdleShadow ==
    /\ shadowWorld = Idle /\ shadowPoint = Idle /\ shadowResult = Idle

IdleTuple ==
    /\ tupA = Idle /\ tupB = Idle /\ tupOp = Idle /\ tupResult = Idle

IdleSphere ==
    /\ sphShape = Idle /\ sphRay = Idle /\ sphXs = Idle

IdleCanvas ==
    /\ canvasArgs = Idle /\ canvasPixels = Idle /\ lastSet = Idle /\ setCount = Idle
    /\ gotPixel = Idle /\ ppm = Idle

IdleTasks ==
    /\ taskCamera = Idle /\ taskTraced = Idle /\ taskImage = Idle /\ pending = Idle

IdleTransform ==
    /\ trShift = Idle /\ trTuple = Idle /\ trMoved = Idle /\ trBack = Idle

IdleHandler ==
    /\ types = Idle /\ transforms = Idle /\ materials = Idle /\ lastOp = Idle
    /\ given = Idle /\ opCount = Idle /\ applied = Idle /\ created = Idle

IdleUnwrap ==
    /\ callTransform = Idle /\ callOp = Idle /\ callArg = Idle /\ callValue = Idle
    /\ callPanic = Idle

\* every harness but the running one is idle
IdleExcept(running) ==
    /\ IF running = "hit" THEN TRUE ELSE IdleHit
    /\ IF running = "matrix" THEN TRUE ELSE IdleMatrix
    /\ IF running = "prepare" THEN TRUE ELSE IdlePrepare
    /\ IF running = "world" THEN TRUE ELSE IdleWorld
    /\ IF running = "lighting" THEN TRUE ELSE IdleLighting
    /\ IF running = "trace" THEN TRUE ELSE IdleTrace
    /\ IF running = "render" THEN TRUE ELSE IdleRender
    /\ IF running = "shadow" THEN TRUE ELSE IdleShadow
    /\ IF running = "tuple" THEN TRUE ELSE IdleTuple
    /\ IF running = "sphere" THEN TRUE ELSE IdleSphere
    /\ IF running = "canvas" THEN TRUE ELSE IdleCanvas
    /\ IF running = "tasks" THEN TRUE ELSE IdleTasks
    /\ IF running = "transform" THEN TRUE ELSE IdleTransform
    /\ IF running = "handler" THEN TRUE ELSE IdleHandler
    /\ IF running = "unwrap" THEN TRUE ELSE IdleUnwrap

(***************************************************************************)
(* Exact arithmetic                                                        *)
(***************************************************************************)
Abs(x) == IF x < 0 THEN -x ELSE x

\* the whole part of the square root of n, between lo and hi
RECURSIVE Isqrt(_, _, _)
Isqrt(n, lo, hi) ==
    IF lo >= hi THEN lo
    ELSE LET mid == (lo + hi + 1) \div 2
         IN IF mid * mid <= n THEN Isqrt(n, mid, hi) ELSE Isqrt(n, lo, mid - 1)

\* f64::sqrt on a perfect square
Sqrt(n) == CHOOSE r \in {Isqrt(n, 0, n)} : r * r = n

IsSquare(n) == n >= 0 /\ \E r \in 0..n : r * r = n

\* a / b for a quotient that is a whole number
ExactDiv(a, b) ==
    IF b = 0 THEN CHOOSE q \in {0} : q * b = a
    ELSE CHOOSE q \in {(IF (a < 0) = (b < 0) THEN 1 ELSE -1) * (Abs(a) \div Abs(b))} : q * b = a

RECURSIVE Gcd(_, _)
Gcd(a, b) == IF b = 0 THEN a ELSE Gcd(b, a % b)

\* fractions <<n, d>> with d > 0, in lowest terms
Frac(n, d) ==
    LET s == IF d < 0 THEN -1 ELSE 1
        g == Gcd(Abs(n), Abs(d))
    IN <<ExactDiv(s * n, g), ExactDiv(s * d, g)>>

Q(n) == <<n, 1>>
QAdd(a, b) == Frac(a[1] * b[2] + b[1] * a[2], a[2] * b[2])
QSub(a, b) == Frac(a[1] * b[2] - b[1] * a[2], a[2] * b[2])
QMul(a, b) == Frac(a[1] * b[1], a[2] * b[2])
QDiv(a, b) == Frac(a[1] * b[2], a[2] * b[1])
QLt(a, b) == a[1] * b[2] < b[1] * a[2]
QGt(a, b) == QLt(b, a)
QSqrt(a) == <<Sqrt(a[1]), Sqrt(a[2])>>
RECURSIVE QPowi(_, _)
QPowi(a, n) == IF n = 0 THEN Q(1) ELSE QMul(a, QPowi(a, n - 1))

\* f64::powf for an exponent that is a whole number, by squaring
RECURSIVE powf(_, _)
powf(a, n) ==
    IF n = 0 THEN Q(1)
    ELSE IF n % 2 = 0 THEN LET h == powf(a, n \div 2) IN QMul(h, h)
    ELSE QMul(a, powf(a, n - 1))

(***************************************************************************)
(* tuple.rs                                                                *)
(***************************************************************************)
Tuple(x, y, z, w) == [x |-> x, y |-> y, z |-> z, w |-> w]

point(x, y, z) == Tuple(x, y, z, 1)

vector(x, y, z) == Tuple(x, y, z, 0)

TAdd(a, b) == Tuple(a.x + b.x, a.y + b.y, a.z + b.z, a.w + b.w)

\* a subtraction that keeps the w of its left operand
TSubKeepsW(a, b) == Tuple(a.x - b.x, a.y - b.y, a.z - b.z, a.w)

TSub(a, b) == Tuple(a.x - b.x, a.y - b.y, a.z - b.z, a.w - b.w)

TNeg(a) == Tuple(-a.x, -a.y, -a.z, -a.w)

TMul(a, s) == Tuple(a.x * s, a.y * s, a.z * s, a.w * s)

dot(a, b) == a.x * b.x + a.y * b.y + a.z * b.z + a.w * b.w

magnitude(a) == Sqrt(a.x * a.x + a.y * a.y + a.z * a.z + a.w * a.w)

\* the result is a direction: a tuple of plain integers
normalize(a) ==
    LET m == magnitude(a)
    IN Tuple(ExactDiv(a.x, m), ExactDiv(a.y, m), ExactDiv(a.z, m), ExactDiv(a.w, m))

cross(a, b) ==
    vector(a.y * b.z - a.z * b.y, a.z * b.x - a.x * b.z, a.x * b.y - a.y * b.x)

reflect(a, normal) == TSub(a, TMul(TMul(normal, 2), dot(a, normal)))

(***************************************************************************)
(* matrix.rs                                                               *)
(***************************************************************************)
\* A square matrix of order n is a function [0..n-1 -> [0..n-1 -> Int]].
Idx(n) == 0..(n - 1)

order == 4

zero == [r \in Idx(order) |-> [c \in Idx(order) |-> 0]]

identity == [r \in Idx(order) |-> [c \in Idx(order) |-> IF r = c THEN 1 ELSE 0]]

transpose(m) == [c \in Idx(order) |-> [r \in Idx(order) |-> m[r][c]]]

MatEq(a, b) == \A r \in Idx(order), c \in Idx(order) : a[r][c] = b[r][c]

MatMul(a, b) ==
    [r \in Idx(order) |-> [c \in Idx(order) |->
        a[r][0] * b[0][c] + a[r][1] * b[1][c] + a[r][2] * b[2][c] + a[r][3] * b[3][c]]]

\* the matrix of order n-1 left when row and col are removed from m (order n)
submatrix(m, n, row, col) ==
    [i \in Idx(n - 1) |-> [j \in Idx(n - 1) |->
        m[IF i < row THEN i ELSE i + 1][IF j < col THEN j ELSE j + 1]]]

RECURSIVE determinant(_, _)
minor(m, n, row, col) == determinant(submatrix(m, n, row, col), n - 1)

cofactor(m, n, row, col) ==
    IF (row + col) % 2 = 0 THEN minor(m, n, row, col) ELSE -minor(m, n, row, col)

RECURSIVE CofactorSum(_, _, _)
CofactorSum(m, n, i) ==
    IF i = n THEN 0 ELSE m[0][i] * cofactor(m, n, 0, i) + CofactorSum(m, n, i + 1)

determinant(m, n) ==
    IF n = 2 THEN m[0][0] * m[1][1] - m[0][1] * m[1][0]
    ELSE CofactorSum(m, n, 0)

\* f64::EPSILON is 2^-52.  A Mat4x4 whose entries are whole multiples of
\* 2^-e has a determinant that is a whole multiple of 2^-(4e); EPSILON(e) is
\* f64::EPSILON in that unit, rounded down, so that for an integer d
\* d * 2^-(4e) > f64::EPSILON  iff  d > EPSILON(e).  The geometry uses e = 0.
EpsilonExp == 52

EPSILON(e) == IF 4 * e < EpsilonExp THEN 0 ELSE 2 ^ (4 * e - EpsilonExp)

invertibleNoAbs(m, e) == determinant(m, order) > EPSILON(e)

invertible(m, e) == Abs(determinant(m, order)) > EPSILON(e)

\* Ok(res) with res[c][r] = cofactor(r, c) / det is kept as the numerators
\* num[c][r] and the common denominator den; a cofactor is in units of
\* 2^-(3e) and the determinant in units of 2^-(4e), so the entries of res
\* are in units of 2^exp with exp = e.
inverseNoTranspose(m, e) ==
    IF invertible(m, e)
    THEN [ok |-> TRUE,
          num |-> [r \in Idx(order) |-> [c \in Idx(order) |-> cofactor(m, order, r, c)]],
          den |-> determinant(m, order),
          exp |-> e]
    ELSE [ok |-> FALSE, err |-> "Matrix is not invertible"]

inverse(m, e) ==
    IF invertible(m, e)
    THEN [ok |-> TRUE,
          num |-> [c \in Idx(order) |-> [r \in Idx(order) |-> cofactor(m, order, r, c)]],
          den |-> determinant(m, order),
          exp |-> e]
    ELSE [ok |-> FALSE, err |-> "Matrix is not invertible"]

\* impl Mul<Tuple> for Mat4x4
MatMulTuple(m, t) ==
    LET row(r) == Tuple(m[r][0], m[r][1], m[r][2], m[r][3])
    IN Tuple(dot(row(0), t), dot(row(1), t), dot(row(2), t), dot(row(3), t))

\* inverse().unwrap() * t and inverse().unwrap().transpose() * t: every
\* entry of the inverse is num / den, so a row times t is (num row . t) / den
InvMulTuple(inv, t) ==
    LET n == MatMulTuple(inv.num, t)
    IN Tuple(ExactDiv(n.x, inv.den), ExactDiv(n.y, inv.den),
             ExactDiv(n.z, inv.den), ExactDiv(n.w, inv.den))

InvTranspose(inv) == [inv EXCEPT !.num = transpose(inv.num)]

(***************************************************************************)
(* transform.rs                                                            *)
(***************************************************************************)
\* a translate that fills the last row in place of the last column
translateLastRow(x, y, z) ==
    [identity EXCEPT ![3][0] = x, ![3][1] = y, ![3][2] = z]

translate(x, y, z) ==
    [identity EXCEPT ![0][3] = x, ![1][3] = y, ![2][3] = z]

scale(x, y, z) ==
    [identity EXCEPT ![0][0] = x, ![1][1] = y, ![2][2] = z]

(***************************************************************************)
(* color.rs                                                                *)
(***************************************************************************)
Color(r, g, b) == [r |-> r, g |-> g, b |-> b]

black == Color(Q(0), Q(0), Q(0))

white == Color(Q(1), Q(1), Q(1))

CAdd(a, b) == Color(QAdd(a.r, b.r), QAdd(a.g, b.g), QAdd(a.b, b.b))

CMul(a, b) == Color(QMul(a.r, b.r), QMul(a.g, b.g), QMul(a.b, b.b))

CScale(a, s) == Color(QMul(a.r, s), QMul(a.g, s), QMul(a.b, s))

(***************************************************************************)
(* materials.rs, lights.rs and the Shape of world.rs                       *)
(***************************************************************************)
\* Option<Pattern>: None, or Some(pattern) as <<pattern>>
NoPattern == <<>>

MaterialNew ==
    [color |-> white, ambient |-> Frac(1, 10), diffuse |-> Frac(9, 10),
     specular |-> Frac(9, 10), shininess |-> 200, reflective |-> Q(0),
     transparency |-> Q(0), refractive_index |-> Q(1), pattern |-> NoPattern]

PointLight(intensity, position) == [intensity |-> intensity, position |-> position]

\* Shape::new(ty): identity transform, default material
ShapeNew(ty) == [ty |-> ty, transform |-> identity, material |-> MaterialNew]

\* glass_sphere(): transparency 1, refractive index 1.5
glass_sphere ==
    [ShapeNew("Sphere") EXCEPT !.material.transparency = Q(1),
                               !.material.refractive_index = Frac(3, 2)]

(***************************************************************************)
(* intersections.rs                                                        *)
(***************************************************************************)
\* shape stands for the &Shape; derive(PartialEq) compares the Shape values
Intersection(t, shape) == [t |-> t, shape |-> shape]

None == <<>>

Some(v) == <<v>>

\* a minimum that keeps the later of two elements that compare Equal
RECURSIVE min_by_tKeepsLater(_, _)
min_by_tKeepsLater(best, rest) ==
    IF rest = <<>> THEN best
    ELSE min_by_tKeepsLater(IF best.t >= Head(rest).t THEN Head(rest) ELSE best, Tail(rest))

\* Iterator::min_by keeps the earlier of two elements that compare Equal
RECURSIVE min_by_t(_, _)
min_by_t(best, rest) ==
    IF rest = <<>> THEN best
    ELSE min_by_t(IF best.t > Head(rest).t THEN Head(rest) ELSE best, Tail(rest))

hitStrictlyPositive(xs) ==
    LET f == SelectSeq(xs, LAMBDA i : i.t > 0)
    IN IF f = <<>> THEN None ELSE Some(min_by_t(Head(f), Tail(f)))

hit(xs) ==
    LET f == SelectSeq(xs, LAMBDA i : i.t >= 0)
    IN IF f = <<>> THEN None ELSE Some(min_by_t(Head(f), Tail(f)))

(***************************************************************************)
(* ray.rs                                                                  *)
(***************************************************************************)
\* lengths are counted in steps of OVER_POINT_EPSILON; One is the length 1.0
OVER_POINT_EPSILON == 1

One == 4 * OVER_POINT_EPSILON

Ray(origin, direction) == [origin |-> origin, direction |-> direction]

position(ray, t) == TAdd(ray.origin, TMul(ray.direction, t))

\* impl Mul<Ray> for Mat4x4, with the unwrapped inverse as the matrix
InvMulRay(inv, ray) == Ray(InvMulTuple(inv, ray.origin), InvMulTuple(inv, ray.direction))

(***************************************************************************)
(* Shapes: intersect and normal                                            *)
(***************************************************************************)
\* an intersect that returns the point of a tangent ray once
sphere_intersectTangentOnce(shape, ray) ==
    LET ray2 == InvMulRay(inverse(shape.transform, 0), ray)
        sphere_to_ray == TSub(ray2.origin, point(0, 0, 0))
        a == dot(ray2.direction, ray2.direction)
        b == 2 * dot(ray2.direction, sphere_to_ray)
        c == dot(sphere_to_ray, sphere_to_ray) - One * One
        discriminant == b * b - 4 * a * c
    IN IF discriminant < 0 THEN <<>>
       ELSE IF discriminant = 0 THEN <<Intersection(ExactDiv(-b, 2 * a), shape)>>
       ELSE <<Intersection(ExactDiv(-b - Sqrt(discriminant), 2 * a), shape),
              Intersection(ExactDiv(-b + Sqrt(discriminant), 2 * a), shape)>>

sphere_intersect(shape, ray) ==
    LET ray2 == InvMulRay(inverse(shape.transform, 0), ray)
        sphere_to_ray == TSub(ray2.origin, point(0, 0, 0))
        a == dot(ray2.direction, ray2.direction)
        b == 2 * dot(ray2.direction, sphere_to_ray)
        c == dot(sphere_to_ray, sphere_to_ray) - One * One
        discriminant == b * b - 4 * a * c
    IN IF discriminant < 0 THEN <<>>
       ELSE <<Intersection(ExactDiv(-b - Sqrt(discriminant), 2 * a), shape),
              Intersection(ExactDiv(-b + Sqrt(discriminant), 2 * a), shape)>>

\* the plane y = 0 of the local frame: no root for a ray parallel to it
plane_intersect(shape, ray) ==
    LET ray2 == InvMulRay(inverse(shape.transform, 0), ray)
    IN IF Abs(ray2.direction.y) = 0 THEN <<>>
       ELSE <<Intersection(ExactDiv(-ray2.origin.y, ray2.direction.y), shape)>>

shape_intersect(shape, ray) ==
    IF shape.ty = "Sphere" THEN sphere_intersect(shape, ray)
    ELSE plane_intersect(shape, ray)

local_normal(shape, object_point) ==
    IF shape.ty = "Sphere" THEN TSub(object_point, point(0, 0, 0))
    ELSE vector(0, 1, 0)

normal(shape, wp) ==
    LET tinv == inverse(shape.transform, 0)
        on == local_normal(shape, InvMulTuple(tinv, wp))
        wn == InvMulTuple(InvTranspose(tinv), on)
    IN normalize([wn EXCEPT !.w = 0])

(***************************************************************************)
(* world.rs                                                                *)
(***************************************************************************)
World(light, shapes) == [light |-> light, shapes |-> shapes]

\* slice::sort_by is stable: an element goes after those that are not greater
RECURSIVE insert_by_t(_, _)
insert_by_t(sorted, i) ==
    IF sorted = <<>> THEN <<i>>
    ELSE IF Head(sorted).t > i.t THEN <<i>> \o sorted
    ELSE <<Head(sorted)>> \o insert_by_t(Tail(sorted), i)

RECURSIVE sort_by_t(_, _)
sort_by_t(sorted, rest) ==
    IF rest = <<>> THEN sorted
    ELSE sort_by_t(insert_by_t(sorted, Head(rest)), Tail(rest))

RECURSIVE append_all(_, _, _)
append_all(xs, shapes, ray) ==
    IF shapes = <<>> THEN xs
    ELSE append_all(xs \o shape_intersect(Head(shapes), ray), Tail(shapes), ray)

\* a collection that keeps only what the last shape yields
RECURSIVE keep_last(_, _, _)
keep_last(xs, shapes, ray) ==
    IF shapes = <<>> THEN xs
    ELSE keep_last(shape_intersect(Head(shapes), ray), Tail(shapes), ray)

intersectOverwrite(world, ray) == sort_by_t(<<>>, keep_last(<<>>, world.shapes, ray))

intersect(world, ray) == sort_by_t(<<>>, append_all(<<>>, world.shapes, ray))

\* a preparation that keeps the normal of the shape whatever the eye's side
prepare_computationsNeverFlips(intersection, ray) ==
    LET pt == position(ray, intersection.t)
        normalv == normal(intersection.shape, pt)
    IN [t |-> intersection.t, shape |-> intersection.shape, point |-> pt,
        over_point |-> TAdd(pt, TMul(normalv, OVER_POINT_EPSILON)),
        under_point |-> TSub(pt, TMul(normalv, OVER_POINT_EPSILON)),
        eyev |-> TNeg(ray.direction), normalv |-> normalv,
        reflectv |-> reflect(ray.direction, normalv), inside |-> FALSE,
        n1 |-> Q(0), n2 |-> Q(0)]

prepare_computations(intersection, ray) ==
    LET t == intersection.t
        shape == intersection.shape
        pt == position(ray, intersection.t)
        eyev == TNeg(ray.direction)
        normalv == normal(shape, pt)
        over_point == TAdd(pt, TMul(normalv, OVER_POINT_EPSILON))
        under_point == TSub(pt, TMul(normalv, OVER_POINT_EPSILON))
        inside == dot(normalv, eyev) < 0
        normalv2 == IF inside THEN TNeg(normalv) ELSE normalv
        reflectv == reflect(ray.direction, normalv2)
    IN [t |-> t, shape |-> shape, point |-> pt, over_point |-> over_point,
        under_point |-> under_point, eyev |-> eyev, normalv |-> normalv2,
        reflectv |-> reflectv, inside |-> inside, n1 |-> Q(0), n2 |-> Q(0)]

\* the state of the walk over the intersections: containers, n1, n2
WalkStart == [containers |-> <<>>, n1 |-> Q(1), n2 |-> Q(1)]

Last(s) == s[Len(s)]

\* Iterator::position: the first index whose element equals shape, 0 for None
PositionOf(containers, shape) ==
    IF \E k \in 1..Len(containers) : containers[k] = shape
    THEN CHOOSE k \in 1..Len(containers) :
            /\ containers[k] = shape
            /\ \A j \in 1..(k - 1) : containers[j] # shape
    ELSE 0

\* a removal that takes the top of the list whatever the index
RemoveTop(s, k) == [j \in 1..(Len(s) - 1) |-> s[j]]

\* Vec::remove(index)
Remove(s, k) == [j \in 1..(Len(s) - 1) |-> IF j < k THEN s[j] ELSE s[j + 1]]

\* a walk that reads n1 after the toggle
walk_stepN1AfterToggle(w, i, intersection) ==
    LET shape_index == PositionOf(w.containers, i.shape)
        containers == IF shape_index # 0 THEN Remove(w.containers, shape_index)
                      ELSE Append(w.containers, i.shape)
        n == IF containers = <<>> THEN Q(1)
             ELSE Last(containers).material.refractive_index
    IN [containers |-> containers,
        n1 |-> IF i = intersection THEN n ELSE w.n1,
        n2 |-> IF i = intersection THEN n ELSE w.n2]

\* one turn of the loop of prepare_computations_with_intersections
walk_step(w, i, intersection) ==
    LET n1 == IF i = intersection
              THEN IF w.containers = <<>> THEN Q(1)
                   ELSE Last(w.containers).material.refractive_index
              ELSE w.n1
        shape_index == PositionOf(w.containers, i.shape)
        containers == IF shape_index # 0 THEN Remove(w.containers, shape_index)
                      ELSE Append(w.containers, i.shape)
        n2 == IF i = intersection
              THEN IF containers = <<>> THEN Q(1)
                   ELSE Last(containers).material.refractive_index
              ELSE w.n2
    IN [containers |-> containers, n1 |-> n1, n2 |-> n2]

RECURSIVE walk(_, _, _)
walk(w, xs, intersection) ==
    IF xs = <<>> THEN w ELSE walk(walk_step(w, Head(xs), intersection), Tail(xs), intersection)

\* the end of prepare_computations_with_intersections
with_n1_n2(w, intersection, ray) ==
    [prepare_computations(intersection, ray) EXCEPT !.n1 = w.n1, !.n2 = w.n2]

prepare_computations_with_intersections(intersection, ray, xs) ==
    with_n1_n2(walk(WalkStart, xs, intersection), intersection, ray)

(***************************************************************************)
(* patterns.rs and Material::lighting                                      *)
(***************************************************************************)
StripedPattern(a, b) == [a |-> a, b |-> b, transform |-> identity]

\* point.x.floor() % 2. == 0., with x counted in steps of 1 / One
stripe_color_at(pattern, pt) ==
    IF (pt.x \div One) % 2 = 0 THEN pattern.a ELSE pattern.b

color_at_object(pattern, shape, world_point) ==
    LET object_point == InvMulTuple(inverse(shape.transform, 0), world_point)
        pattern_point == InvMulTuple(inverse(pattern.transform, 0), object_point)
    IN stripe_color_at(pattern, pattern_point)

\* a lighting that ignores in_shadow
lightingIgnoresShadow(material, object, light, pt, eyev, normalv, in_shadow) ==
    LET color == IF material.pattern = NoPattern THEN material.color
                 ELSE color_at_object(material.pattern[1], object, pt)
        effective_color == CMul(color, light.intensity)
        lightv == normalize(TSub(light.position, pt))
        ambient == CScale(effective_color, material.ambient)
        light_dot_normal == dot(lightv, normalv)
        reflectv == reflect(TNeg(lightv), normalv)
        reflect_dot_eye == dot(reflectv, eyev)
        diffuse == IF light_dot_normal >= 0
                   THEN CScale(CScale(effective_color, material.diffuse), Q(light_dot_normal))
                   ELSE black
        specular == IF light_dot_normal >= 0 /\ reflect_dot_eye > 0
                    THEN CScale(CScale(light.intensity, material.specular),
                                powf(Q(reflect_dot_eye), material.shininess))
                    ELSE black
    IN CAdd(CAdd(ambient, diffuse), specular)

lighting(material, object, light, pt, eyev, normalv, in_shadow) ==
    LET color == IF material.pattern = NoPattern THEN material.color
                 ELSE color_at_object(material.pattern[1], object, pt)
        effective_color == CMul(color, light.intensity)
        lightv == normalize(TSub(light.position, pt))
        ambient == CScale(effective_color, material.ambient)
        light_dot_normal == dot(lightv, normalv)
        reflectv == reflect(TNeg(lightv), normalv)
        reflect_dot_eye == dot(reflectv, eyev)
        diffuse == IF ~in_shadow /\ light_dot_normal >= 0
                   THEN CScale(CScale(effective_color, material.diffuse), Q(light_dot_normal))
                   ELSE black
        specular == IF ~in_shadow /\ light_dot_normal >= 0 /\ reflect_dot_eye > 0
                    THEN CScale(CScale(light.intensity, material.specular),
                                powf(Q(reflect_dot_eye), material.shininess))
                    ELSE black
    IN CAdd(CAdd(ambient, diffuse), specular)

(***************************************************************************)
(* world.rs: shadows, reflection, refraction                               *)
(***************************************************************************)
\* an is_shadowed that does not compare the hit with the distance
is_shadowedAnyHit(world, p) ==
    hit(intersect(world, Ray(p, normalize(TSub(world.light.position, p))))) # None

is_shadowed(world, p) ==
    LET direction == TSub(world.light.position, p)
        distance == magnitude(direction)
        ray == Ray(p, normalize(direction))
        h == hit(intersect(world, ray))
    IN IF h = None THEN FALSE ELSE h[1].t < distance

\* shade_hit up to the surface colour
surface_color(world, comps) ==
    lighting(comps.shape.material, comps.shape, world.light, comps.over_point,
             comps.eyev, comps.normalv, is_shadowed(world, comps.over_point))

\* a recursion that hands its own budget on
bounceSameBudget(remaining) == remaining

\* the width of the budget, an i8
I8Bits == 8

I8Min == -(2 ^ (I8Bits - 1))

I8Max == 2 ^ (I8Bits - 1) - 1

\* the budget handed to the recursive color_at: remaining - 1 in i8, which
\* wraps around at the lowest value when the build does not check overflow
bounce(remaining) == IF remaining = I8Min THEN I8Max ELSE remaining - 1

\* a reflected_color that does not look at the budget
reflected_color_recursesAnyBudget(comps, remaining) ==
    QGt(comps.shape.material.reflective, Q(0))

\* reflected_color: the condition of the recursive call
reflected_color_recurses(comps, remaining) ==
    remaining > 0 /\ QGt(comps.shape.material.reflective, Q(0))

reflected_ray(comps) == Ray(comps.over_point, comps.reflectv)

n_ratio(comps) == QDiv(comps.n1, comps.n2)

cos_i(comps) == dot(comps.eyev, comps.normalv)

sin2_t(comps) == QMul(QPowi(n_ratio(comps), 2), Q(1 - cos_i(comps) * cos_i(comps)))

\* a refracted_color that does not look at the budget
refracted_color_stopsIgnoresBudget(comps, remaining) ==
    \/ comps.shape.material.transparency = Q(0)
    \/ QGt(sin2_t(comps), Q(1))

\* refracted_color: the conditions of its two early returns of black
refracted_color_stops(comps, remaining) ==
    \/ remaining = 0
    \/ comps.shape.material.transparency = Q(0)
    \/ QGt(sin2_t(comps), Q(1))

\* a whole number kept as a fraction
ToInt(q) == ExactDiv(q[1], q[2])

refracted_ray(comps) ==
    LET cos_t == QSqrt(QSub(Q(1), sin2_t(comps)))
        f == QSub(QMul(n_ratio(comps), Q(cos_i(comps))), cos_t)
        Component(n, e) == ToInt(QSub(QMul(Q(n), f), QMul(Q(e), n_ratio(comps))))
        direction == Tuple(Component(comps.normalv.x, comps.eyev.x),
                           Component(comps.normalv.y, comps.eyev.y),
                           Component(comps.normalv.z, comps.eyev.z),
                           Component(comps.normalv.w, comps.eyev.w))
    IN Ray(comps.under_point, direction)

schlick(comps) ==
    LET cos0 == Q(dot(comps.eyev, comps.normalv))
        n == QDiv(comps.n1, comps.n2)
        sin2 == QMul(QMul(n, n), QSub(Q(1), QMul(cos0, cos0)))
        r0 == QPowi(QDiv(QSub(comps.n1, comps.n2), QAdd(comps.n1, comps.n2)), 2)
    IN IF QGt(comps.n1, comps.n2) /\ QGt(sin2, Q(1)) THEN Q(1)
       ELSE LET cos == IF QGt(comps.n1, comps.n2) THEN QSqrt(QSub(Q(1), sin2)) ELSE cos0
            IN QAdd(r0, QMul(QSub(Q(1), r0), QPowi(QSub(Q(1), cos), 5)))

\* a shade_hit that always adds the three colours
combinePlainSum(material, comps, surface, reflected, refracted) ==
    CAdd(CAdd(surface, reflected), refracted)

\* the end of shade_hit
combine(material, comps, surface, reflected, refracted) ==
    IF QGt(material.reflective, Q(0)) /\ QGt(material.transparency, Q(0))
    THEN LET reflectance == schlick(comps)
         IN CAdd(CAdd(surface, CScale(reflected, reflectance)),
                 CScale(refracted, QSub(Q(1), reflectance)))
    ELSE CAdd(CAdd(surface, reflected), refracted)

(***************************************************************************)
(* Harness of hit: one call on an arbitrary list                           *)
(***************************************************************************)
MaxHitLen == 3
MaxT == 2

SeqsUpTo(S, n) == UNION {[1..k -> S] : k \in 0..n}

HitShapes == {ShapeNew("Sphere"), glass_sphere}

InitHit ==
    /\ pc = "hit"
    /\ intersections \in
         SeqsUpTo({Intersection(t, s) : t \in (-MaxT)..MaxT, s \in HitShapes}, MaxHitLen)
    /\ hitResult = None
    /\ IdleExcept("hit")

HitCall ==
    /\ pc = "hit"
    /\ hitResult' = hit(intersections)
    /\ pc' = "hit_done"
    /\ UNCHANGED <<intersections, exceptHit>>

\* the caller drops the list and the result
HitReturn ==
    /\ pc = "hit_done"
    /\ pc' = "returned"
    /\ intersections' = <<>>
    /\ hitResult' = None
    /\ UNCHANGED exceptHit

NextHit == HitCall \/ HitReturn

SpecHit == InitHit /\ [][NextHit]_vars

(***************************************************************************)
(* Harness of Mat4x4::inverse                                              *)
(***************************************************************************)
MatMax == 3

\* exponents e: the entries of m4 are whole multiples of 2^-e
MatExps == {0, 13, 14}

MatRows ==
    {<<1, 0, 0, 0>>, <<0, 1, 0, 0>>, <<0, 0, 1, 0>>, <<0, 0, 0, 1>>,
     <<MatMax, 1, 0, -1>>, <<0, -MatMax, 2, MatMax>>}

MatOfRows(rows) == [r \in Idx(order) |-> [c \in Idx(order) |-> rows[r + 1][c + 1]]]

MatInputs == {MatOfRows(rows) : rows \in [1..order -> MatRows]}

MatLeft ==
    {identity, translate(1, -2, MatMax),
     MatOfRows(<<<<1, 2, 3, 4>>, <<0, -1, 5, 2>>, <<7, 0, 1, -3>>, <<2, 2, 0, 1>>>>)}

InitMatrix ==
    /\ pc = "inverse"
    /\ m4 \in MatInputs
    /\ mexp \in MatExps
    /\ mA \in MatLeft
    /\ invResult = Idle
    /\ product = Idle
    /\ IdleExcept("matrix")

InverseCall ==
    /\ pc = "inverse"
    /\ invResult' = inverse(m4, mexp)
    /\ pc' = "inverse_done"
    /\ UNCHANGED <<m4, mexp, mA, product, exceptMatrix>>

\* (A * B) * B.inverse().unwrap(), the entries kept as numerators over den
MulByInverse ==
    /\ pc = "inverse_done"
    /\ invResult.ok
    /\ product' = [num |-> MatMul(MatMul(mA, m4), invResult.num),
                   den |-> invResult.den,
                   exp |-> invResult.exp - mexp]
    /\ pc' = "product_done"
    /\ UNCHANGED <<m4, mexp, mA, invResult, exceptMatrix>>

NextMatrix == InverseCall \/ MulByInverse

SpecMatrix == InitMatrix /\ [][NextMatrix]_vars

(***************************************************************************)
(* Harness of prepare_computations_with_intersections: the walk, one turn  *)
(* of the for loop at a time                                               *)
(***************************************************************************)
MaxWalkLen == 4

\* the three glass spheres of find_n1_n2_test
GlassA ==
    [glass_sphere EXCEPT !.transform = scale(2, 2, 2),
                         !.material.refractive_index = Frac(3, 2)]

GlassB ==
    [glass_sphere EXCEPT !.transform = translate(0, 0, -ExactDiv(One, 4)),
                         !.material.refractive_index = Q(2)]

GlassC ==
    [glass_sphere EXCEPT !.transform = translate(0, 0, ExactDiv(One, 4)),
                         !.material.refractive_index = Frac(5, 2)]

\* t = 2, 2.75, 3.25, 4.75, 5.25, 6
NestedXs ==
    <<Intersection(2 * One, GlassA), Intersection(ExactDiv(11 * One, 4), GlassB),
      Intersection(ExactDiv(13 * One, 4), GlassC), Intersection(ExactDiv(19 * One, 4), GlassB),
      Intersection(ExactDiv(21 * One, 4), GlassC), Intersection(6 * One, GlassA)>>

NestedRay == Ray(point(0, 0, -4 * One), vector(0, 0, 1))

MaxPrepShapes == 2

DefaultLight == PointLight(white, point(0, 10 * One, 0))

GlassShapes == <<GlassA, GlassB, GlassC>>

\* lists of up to MaxWalkLen entries over the three spheres, given by the
\* numbers of the spheres; the entries are at t = 1, 2, 3, 5, 6, ..., none
\* of them at the centre of a sphere
WalkIds == UNION {[1..n -> 1..Len(GlassShapes)] : n \in 1..MaxWalkLen}

WalkXs(ids) ==
    [k \in 1..Len(ids) |->
        Intersection((IF k < 4 THEN k ELSE k + 1) * One, GlassShapes[ids[k]])]

\* a ray that touches every unit sphere centred on the z axis
TangentRay == Ray(point(One, 0, -4 * One), vector(0, 0, 1))

\* unit spheres of glass that overlap along the z axis
ColorAtShapes == {glass_sphere, GlassB, GlassC}

\* World::intersect with each intersection marked by the place of its shape
\* in the world
RECURSIVE append_all_marked(_, _, _, _)
append_all_marked(xs, shapes, ray, k) ==
    IF k > Len(shapes) THEN xs
    ELSE LET found == shape_intersect(shapes[k], ray)
         IN append_all_marked(
                xs \o [j \in 1..Len(found) |-> [t |-> found[j].t, shape |-> found[j].shape,
                                                 id |-> k]],
                shapes, ray, k + 1)

intersect_marked(world, ray) == sort_by_t(<<>>, append_all_marked(<<>>, world.shapes, ray, 1))

\* a caller that passes a list of its own and one of its entries
InitPrepareList ==
    /\ prepFrom = "list"
    /\ prepShapes = GlassShapes
    /\ prepRay = NestedRay
    /\ \/ /\ prepIds \in WalkIds
          /\ prepXs = WalkXs(prepIds)
       \/ /\ prepIds = <<1, 2, 3, 2, 3, 1>>
          /\ prepXs = NestedXs
    /\ \E k \in 1..Len(prepXs) :
          /\ prepTarget = prepXs[k]
          /\ prepTargetId = prepIds[k]

\* color_at: the list is intersect(ray) and the target is its hit
InitPrepareColorAt ==
    /\ prepFrom = "color_at"
    /\ prepShapes \in UNION {[1..n -> ColorAtShapes] : n \in 1..MaxPrepShapes}
    /\ prepRay \in {NestedRay, TangentRay}
    /\ \E intersections1 \in {intersect(World(DefaultLight, prepShapes), prepRay)},
          intersections2 \in {intersect(World(DefaultLight, prepShapes), prepRay)},
          marked \in {intersect_marked(World(DefaultLight, prepShapes), prepRay)} :
          /\ prepXs = intersections1
          /\ prepXs = [k \in 1..Len(marked) |-> Intersection(marked[k].t, marked[k].shape)]
          /\ prepIds = [k \in 1..Len(marked) |-> marked[k].id]
          /\ hit(intersections2) # None
          /\ prepTarget = hit(intersections2)[1]
          /\ prepTargetId = hit(marked)[1].id

InitPrepare ==
    /\ pc = "walk"
    /\ InitPrepareList \/ InitPrepareColorAt
    /\ walkPos = 1
    /\ walkState = WalkStart
    /\ walkIds = <<>>
    /\ prepComps = Idle
    /\ IdleExcept("prepare")

WalkStep ==
    /\ pc = "walk"
    /\ walkPos <= Len(prepXs)
    /\ walkState' = walk_step(walkState, prepXs[walkPos], prepTarget)
    /\ LET shape_index == PositionOf(walkState.containers, prepXs[walkPos].shape)
       IN walkIds' = IF shape_index # 0 THEN Remove(walkIds, shape_index)
                     ELSE Append(walkIds, prepIds[walkPos])
    /\ walkPos' = walkPos + 1
    /\ UNCHANGED <<pc, prepTarget, prepRay, prepXs, prepComps, prepFrom, prepShapes, prepIds,
                   prepTargetId, exceptPrepare>>

PrepareReturn ==
    /\ pc = "walk"
    /\ walkPos > Len(prepXs)
    /\ prepComps' = with_n1_n2(walkState, prepTarget, prepRay)
    /\ pc' = "prepared"
    /\ UNCHANGED <<prepTarget, prepRay, prepXs, walkPos, walkState, prepFrom, prepShapes,
                   prepIds, prepTargetId, walkIds, exceptPrepare>>

NextPrepare == WalkStep \/ PrepareReturn

SpecPrepare == InitPrepare /\ [][NextPrepare]_vars

(***************************************************************************)
(* Harness of World::intersect                                             *)
(***************************************************************************)
MaxShapes == 3

\* two overlapping unit spheres and two parallel planes, centred on the y axis
WorldShapes ==
    {ShapeNew("Sphere"),
     [ShapeNew("Sphere") EXCEPT !.transform = translate(0, One, 0)],
     ShapeNew("Plane"),
     [ShapeNew("Plane") EXCEPT !.transform = translate(0, 2 * One, 0)]}

Worlds ==
    {World(DefaultLight, shapes) :
        shapes \in UNION {[1..n -> WorldShapes] : n \in 0..MaxShapes}}

\* rays up and down beside the y axis (through, tangent, past the unit
\* sphere) and one along the x axis, parallel to the planes
WorldRays ==
    {Ray(point(x, -5 * One, 0), vector(0, dy, 0)) :
        x \in {0, One, 2 * One}, dy \in {-1, 1}}
    \cup {Ray(point(-5 * One, 0, 0), vector(1, 0, 0))}

InitIntersect ==
    /\ pc = "intersect"
    /\ selfWorld \in Worlds
    /\ argRay \in WorldRays
    /\ retXs = Idle
    /\ IdleExcept("world")

IntersectCall ==
    /\ pc = "intersect"
    /\ retXs' = intersect(selfWorld, argRay)
    /\ pc' = "intersected"
    /\ UNCHANGED <<selfWorld, argRay, exceptWorld>>

NextIntersect == IntersectCall

SpecIntersect == InitIntersect /\ [][NextIntersect]_vars

(***************************************************************************)
(* Harness of Material::lighting                                           *)
(***************************************************************************)
\* the material of lighting_with_pattern_applied
StripedMaterial ==
    [MaterialNew EXCEPT !.pattern = <<StripedPattern(white, black)>>,
                        !.ambient = Q(1), !.diffuse = Q(0), !.specular = Q(0)]

LitMaterials ==
    {MaterialNew,
     StripedMaterial,
     [MaterialNew EXCEPT !.color = Color(Frac(1, 2), Q(1), Q(0)), !.ambient = Frac(1, 2),
                         !.shininess = 10]}

LitIntensities == {white, Color(Q(1), Frac(1, 2), Q(0))}

LitPoints == {point(0, 0, 0), point(One, 0, 0)}

\* from the point to the light, along an axis
LitOffsets == {vector(0, 0, -10 * One), vector(0, 10 * One, 0), vector(0, 0, 10 * One)}

LitEyes == {vector(0, 0, -1), vector(0, 1, 0), vector(0, 0, 1)}

LitNormals == {vector(0, 0, -1), vector(0, 1, 0)}

InitLighting ==
    /\ pc = "lighting"
    /\ litArgs \in
         {[material |-> m, object |-> ShapeNew("Sphere"),
           light |-> PointLight(i, TAdd(p, o)), point |-> p,
           eyev |-> e, normalv |-> n, in_shadow |-> sh] :
              m \in LitMaterials, i \in LitIntensities, p \in LitPoints,
              o \in LitOffsets, e \in LitEyes, n \in LitNormals, sh \in BOOLEAN}
    /\ litResult = Idle
    /\ IdleExcept("lighting")

LightingCall ==
    /\ pc = "lighting"
    /\ litResult' = lighting(litArgs.material, litArgs.object, litArgs.light, litArgs.point,
                             litArgs.eyev, litArgs.normalv, litArgs.in_shadow)
    /\ pc' = "lit"
    /\ UNCHANGED <<litArgs, exceptLighting>>

NextLighting == LightingCall

SpecLighting == InitLighting /\ [][NextLighting]_vars

(***************************************************************************)
(* The recursion of color_at: shade_hit, reflected_color, refracted_color  *)
(* as a stack of color_at calls                                            *)
(***************************************************************************)
MaxRemaining == 2

MaxTraceShapes == 2

\* the stack never holds more calls than this
MaxDepth == MaxRemaining + 3

\* two mirrors that face each other, a pane that reflects and transmits,
\* and a ball of glass, all centred on the y axis
Floor ==
    [ShapeNew("Plane") EXCEPT !.transform = translate(0, -One, 0),
                              !.material.reflective = Q(1)]

Ceiling ==
    [ShapeNew("Plane") EXCEPT !.transform = MatMul(translate(0, One, 0), scale(1, -1, 1)),
                              !.material.reflective = Q(1)]

Pane ==
    [ShapeNew("Plane") EXCEPT !.material.reflective = Frac(1, 2),
                              !.material.transparency = Frac(1, 2),
                              !.material.refractive_index = Q(3)]

GlassBall == [glass_sphere EXCEPT !.material.refractive_index = Q(3)]

TraceShapes == {Floor, Ceiling, Pane, GlassBall}

TraceWorlds ==
    {World(PointLight(white, l), shapes) :
        l \in {point(0, 0, 0)},
        shapes \in UNION {[1..n -> TraceShapes] : n \in 0..MaxTraceShapes}}

TraceRays ==
    {Ray(point(0, 0, 0), vector(0, 1, 0)),
     Ray(point(0, 0, 0), vector(0, -1, 0)),
     Ray(point(0, -5 * One, 0), vector(0, 1, 0))}

\* a call of color_at that has not begun
Call(r, remaining) ==
    [pc |-> "color_at", ray |-> r, remaining |-> remaining, comps |-> Idle,
     surface |-> Idle, reflected |-> Idle, refracted |-> Idle]

Top == stack[Len(stack)]

\* the stack with its top call replaced
WithTop(frame) == [stack EXCEPT ![Len(stack)] = frame]

InitTrace ==
    /\ pc = "trace"
    /\ traceWorld \in TraceWorlds
    /\ traceRay \in TraceRays
    /\ traceRemaining \in 0..MaxRemaining
    /\ stack = <<Call(traceRay, traceRemaining)>>
    /\ calls = 1
    /\ steps = 0
    /\ shaded = None
    /\ returned = None
    /\ IdleExcept("trace")

\* the top call returns color to its caller, or to the caller of the trace
Return(color) ==
    /\ returned' = Some(color)
    /\ IF Len(stack) = 1
       THEN /\ stack' = <<>>
            /\ pc' = "traced"
       ELSE LET caller == stack[Len(stack) - 1]
                material == caller.comps.shape.material
                resumed ==
                    IF caller.pc = "reflected_wait"
                    THEN [caller EXCEPT !.reflected = CScale(color, material.reflective),
                                        !.pc = "refracted_color"]
                    ELSE [caller EXCEPT !.refracted = CScale(color, material.transparency),
                                        !.pc = "combine"]
            IN /\ stack' = SubSeq(stack, 1, Len(stack) - 2) \o <<resumed>>
               /\ pc' = pc

\* a color_at that empties the list of shapes when nothing is hit
ColorAtMissClearsShapes ==
    /\ pc = "trace"
    /\ Top.pc = "color_at"
    /\ hit(intersect(traceWorld, Top.ray)) = None
    /\ Return(black)
    /\ traceWorld' = World(traceWorld.light, <<>>)
    /\ steps' = steps + 1
    /\ UNCHANGED <<traceRay, traceRemaining, calls, shaded, exceptTrace>>

\* color_at: nothing is hit
ColorAtMiss ==
    /\ pc = "trace"
    /\ steps' = steps + 1
    /\ Top.pc = "color_at"
    /\ hit(intersect(traceWorld, Top.ray)) = None
    /\ Return(black)
    /\ UNCHANGED <<traceWorld, traceRay, traceRemaining, calls, shaded, exceptTrace>>

\* color_at: the hit is prepared and shade_hit computes the surface colour
ColorAtHit ==
    /\ pc = "trace"
    /\ steps' = steps + 1
    /\ Top.pc = "color_at"
    /\ LET intersections1 == intersect(traceWorld, Top.ray)
           h == hit(intersect(traceWorld, Top.ray))
       IN /\ h # None
          /\ LET c == prepare_computations_with_intersections(h[1], Top.ray, intersections1)
             IN stack' = WithTop([Top EXCEPT !.comps = c,
                                             !.surface = surface_color(traceWorld, c),
                                             !.pc = "reflected_color"])
    /\ UNCHANGED <<pc, traceWorld, traceRay, traceRemaining, calls, shaded, returned,
                   exceptTrace>>

\* reflected_color calls color_at
ReflectedColorCall ==
    /\ pc = "trace"
    /\ steps' = steps + 1
    /\ Top.pc = "reflected_color"
    /\ reflected_color_recurses(Top.comps, Top.remaining)
    /\ Len(stack) < MaxDepth
    /\ stack' = WithTop([Top EXCEPT !.pc = "reflected_wait"])
                   \o <<Call(reflected_ray(Top.comps), bounce(Top.remaining))>>
    /\ calls' = calls + 1
    /\ UNCHANGED <<pc, traceWorld, traceRay, traceRemaining, shaded, returned, exceptTrace>>

\* reflected_color returns black
ReflectedColorBlack ==
    /\ pc = "trace"
    /\ steps' = steps + 1
    /\ Top.pc = "reflected_color"
    /\ ~reflected_color_recurses(Top.comps, Top.remaining)
    /\ stack' = WithTop([Top EXCEPT !.reflected = black, !.pc = "refracted_color"])
    /\ UNCHANGED <<pc, traceWorld, traceRay, traceRemaining, calls, shaded, returned,
                   exceptTrace>>

\* refracted_color calls color_at
RefractedColorCall ==
    /\ pc = "trace"
    /\ steps' = steps + 1
    /\ Top.pc = "refracted_color"
    /\ ~refracted_color_stops(Top.comps, Top.remaining)
    /\ Len(stack) < MaxDepth
    /\ stack' = WithTop([Top EXCEPT !.pc = "refracted_wait"])
                   \o <<Call(refracted_ray(Top.comps), bounce(Top.remaining))>>
    /\ calls' = calls + 1
    /\ UNCHANGED <<pc, traceWorld, traceRay, traceRemaining, shaded, returned, exceptTrace>>

\* refracted_color returns black
RefractedColorBlack ==
    /\ pc = "trace"
    /\ steps' = steps + 1
    /\ Top.pc = "refracted_color"
    /\ refracted_color_stops(Top.comps, Top.remaining)
    /\ stack' = WithTop([Top EXCEPT !.refracted = black, !.pc = "combine"])
    /\ UNCHANGED <<pc, traceWorld, traceRay, traceRemaining, calls, shaded, returned,
                   exceptTrace>>

\* shade_hit combines the three colours and color_at returns
ShadeHitReturn ==
    /\ pc = "trace"
    /\ steps' = steps + 1
    /\ Top.pc = "combine"
    /\ LET color == combine(Top.comps.shape.material, Top.comps, Top.surface,
                            Top.reflected, Top.refracted)
       IN /\ shaded' = Some([call |-> Top, color |-> color])
          /\ Return(color)
    /\ UNCHANGED <<traceWorld, traceRay, traceRemaining, calls, exceptTrace>>

\* refracted_color computes remaining - 1 at the lowest i8 value in a build
\* that checks overflow: the subtraction panics
RefractedColorOverflow ==
    /\ pc = "trace"
    /\ steps' = steps + 1
    /\ Top.pc = "refracted_color"
    /\ ~refracted_color_stops(Top.comps, Top.remaining)
    /\ Top.remaining = I8Min
    /\ pc' = "panicked"
    /\ UNCHANGED <<traceWorld, traceRay, traceRemaining, stack, calls, shaded, returned,
                   exceptTrace>>

NextTrace ==
    \/ ColorAtMiss
    \/ ColorAtHit
    \/ ReflectedColorCall
    \/ ReflectedColorBlack
    \/ RefractedColorCall
    \/ RefractedColorBlack
    \/ ShadeHitReturn

SpecTrace == InitTrace /\ [][NextTrace]_vars

\* color_at with a budget at either end of i8 or around zero
InitBudget ==
    /\ pc = "trace"
    /\ traceWorld \in TraceWorlds
    /\ traceRay \in TraceRays
    /\ traceRemaining \in {I8Min, I8Min + 1, -1, 0, 1, I8Max}
    /\ stack = <<Call(traceRay, traceRemaining)>>
    /\ calls = 1
    /\ steps = 0
    /\ shaded = None
    /\ returned = None
    /\ IdleExcept("trace")

NextBudget == NextTrace \/ RefractedColorOverflow

SpecBudget == InitBudget /\ [][NextBudget]_vars

\* a trace in progress takes its next step: nothing suspends or blocks it
Advance == pc = "trace" /\ steps' = steps + 1

SpecTraceFair == SpecTrace /\ WF_steps(Advance)

(***************************************************************************)
(* canvas.rs and Camera::render: the loops over the pixels                 *)
(***************************************************************************)
MaxSize == 4

\* Canvas::new: pixels[x][y], width columns of height black cells
CanvasNew(width, height) ==
    [px \in 0..(width - 1) |-> [py \in 0..(height - 1) |-> black]]

canvas_width(pixels) == Cardinality(DOMAIN pixels)

canvas_height(pixels) ==
    IF DOMAIN pixels = {} THEN 0 ELSE Cardinality(DOMAIN pixels[0])

get_pixel(pixels, px, py) == pixels[px][py]

clamp(val, min, max) ==
    IF QLt(val, min) THEN min ELSE IF QGt(val, max) THEN max ELSE val

\* f64::round of a value that is not negative: halves go up
round(val) == (2 * val[1] + val[2]) \div (2 * val[2])

\* the cast to u8 leaves 0..255 as it is
convert(val) == round(clamp(QMul(val, Q(255)), Q(0), Q(255)))

\* the lines of the text: the header, then one line per row y with the
\* three channels of every pixel x of the row
to_ppm(pixels) ==
    [header |-> <<"P3", <<canvas_width(pixels), canvas_height(pixels)>>, 255>>,
     rows |-> [y \in 1..canvas_height(pixels) |->
                 [x \in 1..canvas_width(pixels) |->
                     LET p == get_pixel(pixels, x - 1, y - 1)
                     IN <<convert(p.r), convert(p.g), convert(p.b)>>]]]

\* a set_pixel that stores the clamped colour
set_pixelClamped(pixels, px, py, c) ==
    [pixels EXCEPT ![px][py] = Color(clamp(c.r, Q(0), Q(1)), clamp(c.g, Q(0), Q(1)),
                                     clamp(c.b, Q(0), Q(1)))]

set_pixel(pixels, px, py, c) == [pixels EXCEPT ![px][py] = c]

\* the colour world.color_at returns for the ray of pixel (px, py): one
\* colour per pixel, none of them black
TracedColors(width, height) ==
    {[px \in 0..(width - 1) |-> [py \in 0..(height - 1) |-> Color(Q(px + 1), Q(py + 1), Q(s))]] :
        s \in 0..1}

InitRender ==
    /\ pc = "render"
    /\ camera \in {[hsize |-> w, vsize |-> h] : w \in 0..MaxSize, h \in 0..MaxSize}
    /\ traced \in TracedColors(camera.hsize, camera.vsize)
    /\ image = Idle
    /\ renderX = 0
    /\ renderY = 0
    /\ written = [px \in 0..(camera.hsize - 1) |-> [py \in 0..(camera.vsize - 1) |-> 0]]
    /\ IdleExcept("render")

\* Canvas::new, and height() - 1 is the end of the rows
RenderBegin ==
    /\ pc = "render"
    /\ canvas_height(CanvasNew(camera.hsize, camera.vsize)) >= 1
    /\ image' = CanvasNew(camera.hsize, camera.vsize)
    /\ pc' = "render_loop"
    /\ UNCHANGED <<camera, traced, renderX, renderY, written, exceptRender>>

\* height() is 0 and height() - 1 overflows usize: a panic where overflow is
\* checked; where it wraps, the first set_pixel is out of bounds and
\* panics, unless the one column there is makes every row empty
RenderOverflow ==
    /\ pc = "render"
    /\ canvas_height(CanvasNew(camera.hsize, camera.vsize)) = 0
    /\ image' = CanvasNew(camera.hsize, camera.vsize)
    /\ pc' \in IF camera.hsize = 1 THEN {"panicked", "rendered"} ELSE {"panicked"}
    /\ UNCHANGED <<camera, traced, renderX, renderY, written, exceptRender>>

\* the body of the loops
RenderPixel ==
    /\ pc = "render_loop"
    /\ renderY < canvas_height(image) - 1
    /\ renderX < canvas_width(image) - 1
    /\ image' = set_pixel(image, renderX, renderY, traced[renderX][renderY])
    /\ written' = [written EXCEPT ![renderX][renderY] = @ + 1]
    /\ renderX' = renderX + 1
    /\ UNCHANGED <<pc, camera, traced, renderY, exceptRender>>

\* for x in 0..image.width() - 1 is over
RenderRowEnd ==
    /\ pc = "render_loop"
    /\ renderY < canvas_height(image) - 1
    /\ renderX >= canvas_width(image) - 1
    /\ renderY' = renderY + 1
    /\ renderX' = 0
    /\ UNCHANGED <<pc, camera, traced, image, written, exceptRender>>

\* for y in 0..image.height() - 1 is over
RenderReturn ==
    /\ pc = "render_loop"
    /\ renderY >= canvas_height(image) - 1
    /\ pc' = "rendered"
    /\ UNCHANGED <<camera, traced, image, renderX, renderY, written, exceptRender>>

NextRender ==
    \/ RenderBegin
    \/ RenderOverflow
    \/ RenderPixel
    \/ RenderRowEnd
    \/ RenderReturn

SpecRender == InitRender /\ [][NextRender]_vars

(***************************************************************************)
(* Harness of World::is_shadowed                                           *)
(***************************************************************************)
MaxShadowShapes == 2

\* The light is on the y axis, above the shapes, among them or on the upper
\* plane; the points are on the y axis and off the light.  The shapes: the
\* unit sphere, a unit sphere beside the axis, a unit sphere high on the
\* axis, the planes y = 0 and y = 2.
InitShadow ==
    /\ pc = "is_shadowed"
    /\ LET shapes == {ShapeNew("Sphere"),
                      [ShapeNew("Sphere") EXCEPT !.transform = translate(3 * One, 0, 0)],
                      [ShapeNew("Sphere") EXCEPT !.transform = translate(0, 5 * One, 0)],
                      ShapeNew("Plane"),
                      [ShapeNew("Plane") EXCEPT !.transform = translate(0, 2 * One, 0)]}
           lights == {point(0, 10 * One, 0), point(0, 2 * One, 0), point(0, -3 * One, 0)}
       IN /\ shadowWorld \in
               {World(PointLight(white, l), s) :
                   l \in lights, s \in UNION {[1..n -> shapes] : n \in 0..MaxShadowShapes}}
          /\ shadowPoint \in
               {point(0, y, 0) : y \in {-5 * One, -One, 0, One + 1, 3 * One, 12 * One}}
                   \ {shadowWorld.light.position}
    /\ shadowResult = Idle
    /\ IdleExcept("shadow")

IsShadowedCall ==
    /\ pc = "is_shadowed"
    /\ shadowResult' = is_shadowed(shadowWorld, shadowPoint)
    /\ pc' = "shadow_tested"
    /\ UNCHANGED <<shadowWorld, shadowPoint, exceptShadow>>

NextShadow == IsShadowedCall

SpecShadow == InitShadow /\ [][NextShadow]_vars

(***************************************************************************)
(* Harness of tuple.rs: Add, Sub and cross on points and vectors           *)
(***************************************************************************)
MaxCoord == 1

InitTuple ==
    /\ pc = "tuple"
    /\ LET coords == -MaxCoord..MaxCoord
           tuples == {Tuple(x, y, z, w) : x \in coords, y \in coords, z \in coords, w \in {0, 1}}
       IN tupA \in tuples /\ tupB \in tuples
    /\ tupOp = Idle
    /\ tupResult = Idle
    /\ IdleExcept("tuple")

TupleAdd ==
    /\ pc = "tuple"
    /\ tupOp' = "add"
    /\ tupResult' = TAdd(tupA, tupB)
    /\ pc' = "tuple_done"
    /\ UNCHANGED <<tupA, tupB, exceptTuple>>

TupleSub ==
    /\ pc = "tuple"
    /\ tupOp' = "sub"
    /\ tupResult' = TSub(tupA, tupB)
    /\ pc' = "tuple_done"
    /\ UNCHANGED <<tupA, tupB, exceptTuple>>

TupleCross ==
    /\ pc = "tuple"
    /\ tupOp' = "cross"
    /\ tupResult' = cross(tupA, tupB)
    /\ pc' = "tuple_done"
    /\ UNCHANGED <<tupA, tupB, exceptTuple>>

NextTuple == TupleAdd \/ TupleSub \/ TupleCross

SpecTuple == InitTuple /\ [][NextTuple]_vars

(***************************************************************************)
(* Harness of the sphere intersection                                      *)
(***************************************************************************)
MaxOffset == 2

\* Unit spheres at the origin and moved; rays along the z axis, forward and
\* backward, that start before, inside, on and behind the sphere and pass
\* through its centre, touch it or miss it.
InitSphere ==
    /\ pc = "sphere_intersect"
    /\ sphShape \in
         {[ShapeNew("Sphere") EXCEPT !.transform = m] :
             m \in {identity, translate(0, One, 0), translate(-One, 0, 2 * One)}}
    /\ sphRay \in
         {Ray(point(x * One, y * One, z), vector(0, 0, dz)) :
             x \in 0..MaxOffset, y \in 0..MaxOffset,
             z \in {-5 * One, -2, 0, 2, One, 5 * One}, dz \in {-1, 1}}
    /\ sphXs = Idle
    /\ IdleExcept("sphere")

SphereIntersectCall ==
    /\ pc = "sphere_intersect"
    /\ sphXs' = sphere_intersect(sphShape, sphRay)
    /\ pc' = "sphere_intersected"
    /\ UNCHANGED <<sphShape, sphRay, exceptSphere>>

NextSphere == SphereIntersectCall

SpecSphere == InitSphere /\ [][NextSphere]_vars

(***************************************************************************)
(* Harness of Canvas: set_pixel, get_pixel, to_ppm                         *)
(***************************************************************************)
MaxCanvas == 2

MaxSets == 2

\* the colours of to_ppm_constructs_ppm_pixel_data and one with channels
\* that round down and up
CanvasColors ==
    {Color(Frac(3, 2), Q(0), Q(0)), Color(Q(0), Frac(1, 2), Q(0)),
     Color(Frac(-1, 2), Q(0), Q(1)), Color(Frac(1, 4), Frac(3, 4), Frac(1, 8))}

InitCanvas ==
    /\ pc = "canvas"
    /\ canvasArgs \in [width : 0..MaxCanvas, height : 0..MaxCanvas]
    /\ canvasPixels = CanvasNew(canvasArgs.width, canvasArgs.height)
    /\ lastSet = canvasPixels
    /\ setCount = 0
    /\ gotPixel = None
    /\ ppm = None
    /\ IdleExcept("canvas")

CanvasSetPixel ==
    /\ pc = "canvas"
    /\ setCount < MaxSets
    /\ \E x \in 0..(canvas_width(canvasPixels) - 1), y \in 0..(canvas_height(canvasPixels) - 1),
          c \in CanvasColors :
          /\ canvasPixels' = set_pixel(canvasPixels, x, y, c)
          /\ lastSet' = [lastSet EXCEPT ![x][y] = c]
    /\ setCount' = setCount + 1
    /\ UNCHANGED <<pc, canvasArgs, gotPixel, ppm, exceptCanvas>>

CanvasGetPixel ==
    /\ pc = "canvas"
    /\ \E x \in 0..(canvas_width(canvasPixels) - 1), y \in 0..(canvas_height(canvasPixels) - 1) :
          gotPixel' = Some([x |-> x, y |-> y, color |-> get_pixel(canvasPixels, x, y)])
    /\ pc' = "got_pixel"
    /\ UNCHANGED <<canvasArgs, canvasPixels, lastSet, setCount, ppm, exceptCanvas>>

CanvasToPpm ==
    /\ pc = "canvas"
    /\ ppm' = Some(to_ppm(canvasPixels))
    /\ pc' = "serialized"
    /\ UNCHANGED <<canvasArgs, canvasPixels, lastSet, setCount, gotPixel, exceptCanvas>>

NextCanvas == CanvasSetPixel \/ CanvasGetPixel \/ CanvasToPpm

SpecCanvas == InitCanvas /\ [][NextCanvas]_vars

(***************************************************************************)
(* Camera::render: the loops as an operator, and the computations of the   *)
(* pixels run in any order                                                 *)
(***************************************************************************)
\* a body of the loops that adds the colour of the cell to the left
render_pixelReadsNeighbour(pixels, colors, px, py) ==
    set_pixel(pixels, px, py,
              IF px = 0 THEN colors[px][py] ELSE CAdd(colors[px][py], pixels[px - 1][py]))

\* the body of the loops: ray_for_pixel, color_at, set_pixel
render_pixel(pixels, colors, px, py) == set_pixel(pixels, px, py, colors[px][py])

\* the loops from (px, py) on
RECURSIVE render_loops(_, _, _, _)
render_loops(pixels, colors, px, py) ==
    IF py >= canvas_height(pixels) - 1 THEN pixels
    ELSE IF px >= canvas_width(pixels) - 1 THEN render_loops(pixels, colors, 0, py + 1)
    ELSE render_loops(render_pixel(pixels, colors, px, py), colors, px + 1, py)

\* render on a canvas that is not empty
render(cam, colors) == render_loops(CanvasNew(cam.hsize, cam.vsize), colors, 0, 0)

InitTasks ==
    /\ pc = "tasks"
    /\ taskCamera \in {[hsize |-> w, vsize |-> h] : w \in 1..MaxSize, h \in 1..MaxSize}
    /\ taskTraced \in TracedColors(taskCamera.hsize, taskCamera.vsize)
    /\ taskImage = CanvasNew(taskCamera.hsize, taskCamera.vsize)
    /\ pending = {<<x, y>> : x \in 0..(taskCamera.hsize - 2), y \in 0..(taskCamera.vsize - 2)}
    /\ IdleExcept("tasks")

\* the computation of one pixel, whichever is taken next
PixelTask ==
    /\ pc = "tasks"
    /\ \E p \in pending :
          /\ taskImage' = render_pixel(taskImage, taskTraced, p[1], p[2])
          /\ pending' = pending \ {p}
    /\ UNCHANGED <<pc, taskCamera, taskTraced, exceptTasks>>

TasksReturn ==
    /\ pc = "tasks"
    /\ pending = {}
    /\ pc' = "tasks_done"
    /\ UNCHANGED <<taskCamera, taskTraced, taskImage, pending, exceptTasks>>

NextTasks == PixelTask \/ TasksReturn

SpecTasks == InitTasks /\ [][NextTasks]_vars

(***************************************************************************)
(* Harness of translate: a tuple moved and moved back                      *)
(***************************************************************************)
MaxShift == 1

InitTransform ==
    /\ pc = "translate"
    /\ trShift \in {<<x, y, z>> : x \in -MaxShift..MaxShift, y \in -MaxShift..MaxShift,
                                   z \in -MaxShift..MaxShift}
    /\ trTuple \in {Tuple(x, y, z, w) : x \in {-3, 0, 5}, y \in {-3, 0, 5}, z \in {-3, 0, 5},
                                        w \in {0, 1}}
    /\ trMoved = None
    /\ trBack = None
    /\ IdleExcept("transform")

\* transform * p
TranslateTuple ==
    /\ pc = "translate"
    /\ trMoved' = Some(MatMulTuple(translate(trShift[1], trShift[2], trShift[3]), trTuple))
    /\ pc' = "translated"
    /\ UNCHANGED <<trShift, trTuple, trBack, exceptTransform>>

\* transform.inverse(), then inv * (transform * p) when the inverse is Ok
TranslateBack ==
    /\ pc = "translated"
    /\ LET inv == inverse(translate(trShift[1], trShift[2], trShift[3]), 0)
       IN trBack' = IF inv.ok THEN Some(InvMulTuple(inv, trMoved[1])) ELSE None
    /\ pc' = "translated_back"
    /\ UNCHANGED <<trShift, trTuple, trMoved, exceptTransform>>

NextTransform == TranslateTuple \/ TranslateBack

SpecTransform == InitTransform /\ [][NextTransform]_vars

(***************************************************************************)
(* shape.rs: ShapeHandler, three vectors indexed by the shape id           *)
(***************************************************************************)
MaxIds == 3

MaxHandlerOps == 5

\* vec[id]: ids count from 0
At(vec, id) == vec[id + 1]

\* vec[id] = v
Assign(vec, id, v) == [vec EXCEPT ![id + 1] = v]

\* a create_shape that leaves the materials as they are
create_shapeWithoutMaterial(h, ty) ==
    [types |-> Append(h.types, ty),
     transforms |-> Append(h.transforms, identity),
     materials |-> h.materials]

create_shape(h, ty) ==
    [types |-> Append(h.types, ty),
     transforms |-> Append(h.transforms, identity),
     materials |-> Append(h.materials, MaterialNew)]

\* an add_transform that puts the new transform in front
add_transformInFront(h, id, transform) ==
    [h EXCEPT !.transforms = Assign(h.transforms, id, MatMul(transform, At(h.transforms, id)))]

add_transform(h, id, transform) ==
    [h EXCEPT !.transforms = Assign(h.transforms, id, MatMul(At(h.transforms, id), transform))]

\* ShapeHandler::material
material_copy(h, id) == At(h.materials, id)

\* a material_mut whose reference also reaches every equal material
material_mutShared(h, id, field, v) ==
    [h EXCEPT !.materials =
        [k \in DOMAIN h.materials |->
            IF h.materials[k] = At(h.materials, id)
            THEN [h.materials[k] EXCEPT ![field] = v]
            ELSE h.materials[k]]]

\* material_mut(id).field = v
material_mut(h, id, field, v) ==
    [h EXCEPT !.materials = Assign(h.materials, id, [At(h.materials, id) EXCEPT ![field] = v])]

set_material(h, id, m) == [h EXCEPT !.materials = Assign(h.materials, id, m)]

number_of_shapes(h) == Len(h.types)

\* the ShapeId that create_shape returns, from the handler after the pushes
create_shape_id(h) == Len(h.types) - 1

\* self of the calls
Handler == [types |-> types, transforms |-> transforms, materials |-> materials]

\* self after a call, the call counted
HandlerBecomes(h, op, id) ==
    /\ types' = h.types
    /\ transforms' = h.transforms
    /\ materials' = h.materials
    /\ lastOp' = Some([op |-> op, id |-> id])
    /\ opCount' = opCount + 1
    /\ UNCHANGED <<pc, exceptHandler>>

\* ShapeHandler::new()
InitHandler ==
    /\ pc = "shape_handler"
    /\ types = <<>>
    /\ transforms = <<>>
    /\ materials = <<>>
    /\ lastOp = None
    /\ given = <<>>
    /\ opCount = 0
    /\ applied = <<>>
    /\ created = <<>>
    /\ IdleExcept("handler")

CreateSphere ==
    /\ pc = "shape_handler"
    /\ opCount < MaxHandlerOps
    /\ Len(types) < MaxIds
    /\ LET h == create_shape(Handler, "Sphere")
       IN /\ HandlerBecomes(h, "create_sphere", create_shape_id(h))
          /\ created' = Append(created, create_shape_id(h))
    /\ given' = Append(given, MaterialNew)
    /\ applied' = Append(applied, <<>>)

AddTransform ==
    /\ pc = "shape_handler"
    /\ opCount < MaxHandlerOps
    /\ \E id \in 0..(Len(types) - 1), t \in {translate(2, 3, 4), scale(1, -1, 2)} :
          /\ HandlerBecomes(add_transform(Handler, id, t), "add_transform", id)
          /\ applied' = Assign(applied, id, Append(At(applied, id), t))
    /\ UNCHANGED <<given, created>>

MaterialMut ==
    /\ pc = "shape_handler"
    /\ opCount < MaxHandlerOps
    /\ \E id \in 0..(Len(types) - 1),
          w \in {<<"ambient", Q(1)>>, <<"color", Color(Q(1), Frac(9, 10), Frac(9, 10))>>} :
          /\ HandlerBecomes(material_mut(Handler, id, w[1], w[2]), "material_mut", id)
          /\ given' = Assign(given, id, [At(given, id) EXCEPT ![w[1]] = w[2]])
    /\ UNCHANGED <<applied, created>>

\* set_material(id, material(from)) and set_material(id, m) for a new m
SetMaterial ==
    /\ pc = "shape_handler"
    /\ opCount < MaxHandlerOps
    /\ \E id \in 0..(Len(types) - 1) :
          \E m \in {material_copy(Handler, from) : from \in 0..(Len(types) - 1)}
                      \cup {[MaterialNew EXCEPT !.specular = Q(0)]} :
             /\ HandlerBecomes(set_material(Handler, id, m), "set_material", id)
             /\ given' = Assign(given, id, m)
    /\ UNCHANGED <<applied, created>>

NextHandler == CreateSphere \/ AddTransform \/ MaterialMut \/ SetMaterial

SpecHandler == InitHandler /\ [][NextHandler]_vars

(***************************************************************************)
(* The callers of Mat4x4::inverse: intersect, normal and ray_for_pixel on  *)
(* transforms that have an inverse and on transforms that have none        *)
(***************************************************************************)
\* Result::unwrap and Result::expect: the value of Ok, a panic with the
\* error for Err
Returned(value) == [ok |-> TRUE, value |-> value]

Panicked(how, inv) == [ok |-> FALSE, panic |-> how, err |-> inv.err]

\* an intersect that returns no intersection when there is no inverse
intersect_unwrapEmptyOnErr(shape, ray) ==
    IF inverse(shape.transform, 0).ok
    THEN Returned(sphere_intersect(shape, ray))
    ELSE Returned(<<>>)

\* ShapeIntersectionHandler::intersect with its unwrap
intersect_unwrap(shape, ray) ==
    LET inv == inverse(shape.transform, 0)
    IN IF inv.ok THEN Returned(sphere_intersect(shape, ray)) ELSE Panicked("unwrap", inv)

\* calculate_sphere_normal with its unwrap
normal_unwrap(shape, wp) ==
    LET inv == inverse(shape.transform, 0)
    IN IF inv.ok THEN Returned(normal(shape, wp)) ELSE Panicked("unwrap", inv)

\* Camera::new, with half_view for tan(field_of_view / 2)
CameraNew(hsize, vsize, half_view) ==
    LET aspect == Frac(hsize, vsize)
        wide == ~QLt(aspect, Q(1))
        half_width == IF wide THEN half_view ELSE QMul(half_view, aspect)
        half_height == IF wide THEN QDiv(half_view, aspect) ELSE half_view
    IN [hsize |-> hsize, vsize |-> vsize, transform |-> identity,
        pixel_size |-> QDiv(QMul(half_width, Q(2)), Q(hsize)),
        half_width |-> half_width, half_height |-> half_height]

\* Camera::ray_for_pixel with its expect; the canvas is One grid steps away
ray_for_pixel(cam, px, py) ==
    LET xoffset == QMul(Frac(2 * px + 1, 2), cam.pixel_size)
        yoffset == QMul(Frac(2 * py + 1, 2), cam.pixel_size)
        world_x == QSub(cam.half_width, xoffset)
        world_y == QSub(cam.half_height, yoffset)
        inv == inverse(cam.transform, 0)
    IN IF inv.ok
       THEN LET pixel == InvMulTuple(inv, point(ToInt(QMul(world_x, Q(One))),
                                                ToInt(QMul(world_y, Q(One))), -One))
                origin == InvMulTuple(inv, point(0, 0, 0))
            IN Returned(Ray(origin, normalize(TSub(pixel, origin))))
       ELSE Panicked("expect", inv)

\* Transforms with an inverse, and transforms without: a scaling by 0, the
\* zero matrix, a matrix with two equal rows.
InitUnwrap ==
    /\ pc = "call"
    /\ callTransform \in
         {identity, translate(0, One, 0), translate(One, 0, -2 * One), scale(1, -1, 1),
          MatMul(translate(0, One, 0), scale(-1, 1, -1)),
          scale(0, 1, 1), scale(1, 1, 0), MatMul(translate(0, One, 0), scale(1, 0, 1)),
          translate(0, 0, One), translate(-One, 0, 0), scale(1, 1, -1), scale(-1, -1, 1),
          zero, scale(0, 0, 0), scale(0, -1, 1),
          [identity EXCEPT ![1] = identity[0]],
          [translate(One, One, 0) EXCEPT ![2] = translate(One, One, 0)[0]]}
    /\ callOp = None
    /\ callArg = None
    /\ callValue = None
    /\ callPanic = None
    /\ IdleExcept("unwrap")

\* the end of a call: its value, or its panic and no value
CallEnds(op, arg, result) ==
    /\ callOp' = Some(op)
    /\ callArg' = Some(arg)
    /\ callValue' = IF result.ok THEN Some(result.value) ELSE None
    /\ callPanic' = IF result.ok THEN None ELSE Some([panic |-> result.panic, err |-> result.err])
    /\ pc' = IF result.ok THEN "call_returned" ELSE "call_panicked"
    /\ UNCHANGED <<callTransform, exceptUnwrap>>

\* rays along the y and the z axis
IntersectUnwrap ==
    /\ pc = "call"
    /\ \E r \in {Ray(point(0, -5 * One, 0), vector(0, 1, 0)),
                 Ray(point(0, 0, 5 * One), vector(0, 0, -1)),
                 Ray(point(2 * One, 0, 0), vector(0, 0, 1))} :
          CallEnds("intersect", r,
                   intersect_unwrap([ShapeNew("Sphere") EXCEPT !.transform = callTransform], r))

\* the normal at the image of a pole of the unit sphere
NormalUnwrap ==
    /\ pc = "call"
    /\ \E p \in {point(0, One, 0), point(0, 0, -One)} :
          CallEnds("normal", MatMulTuple(callTransform, p),
                   normal_unwrap([ShapeNew("Sphere") EXCEPT !.transform = callTransform],
                                 MatMulTuple(callTransform, p)))

\* the ray of the pixel in the middle of a square canvas, field of view pi / 2
RayForPixelUnwrap ==
    /\ pc = "call"
    /\ \E half \in {0, 1} :
          CallEnds("ray_for_pixel", <<half, half>>,
                   ray_for_pixel([CameraNew(2 * half + 1, 2 * half + 1, Q(1))
                                     EXCEPT !.transform = callTransform], half, half))

NextUnwrap == IntersectUnwrap \/ NormalUnwrap \/ RayForPixelUnwrap

SpecUnwrap == InitUnwrap /\ [][NextUnwrap]_vars

(***************************************************************************)
(* C1: hit returns the intersection with the smallest non-negative t, in   *)
(* whatever order the list is (t = 0 is non-negative); it returns None     *)
(* when the list is empty or every t is negative.                          *)
(***************************************************************************)
C1_HitSmallestNonNegative ==
    pc = "hit_done" =>
        LET nn == {i \in 1..Len(intersections) : intersections[i].t >= 0}
        IN IF nn = {}
           THEN hitResult = None
           ELSE /\ hitResult # None
                /\ \E i \in nn :
                      /\ hitResult[1] = intersections[i]
                      /\ \A j \in nn : intersections[i].t <= intersections[j].t

\* a positive t first, then a negative one, then t = 0, which is the hit
C1_Witness ==
    /\ pc = "hit_done"
    /\ Len(intersections) = 3
    /\ intersections[1].t > 0
    /\ intersections[2].t < 0
    /\ intersections[3].t = 0
    /\ hitResult = Some(intersections[3])

(***************************************************************************)
(* C7: inverse returns Err("Matrix is not invertible") exactly when the    *)
(* absolute value of the determinant is at most f64::EPSILON and Ok with a *)
(* matrix otherwise; the call leaves the matrix as it was.                 *)
(***************************************************************************)
C7_InverseErrIffDetWithinEpsilon ==
    /\ [](pc = "inverse_done" =>
            LET det == determinant(m4, order)
                within == -EPSILON(mexp) <= det /\ det <= EPSILON(mexp)
            IN /\ within => invResult = [ok |-> FALSE, err |-> "Matrix is not invertible"]
               /\ ~within => invResult.ok /\ DOMAIN invResult.num = Idx(order))
    /\ [][pc = "inverse" => m4' = m4 /\ mexp' = mexp]_vars

\* a determinant that is not zero and yet within EPSILON: Err
C7_Witness ==
    /\ pc = "inverse_done"
    /\ determinant(m4, order) # 0
    /\ ~invResult.ok

\* a negative determinant beyond EPSILON: Ok
C7_WitnessOk ==
    /\ pc = "inverse_done"
    /\ determinant(m4, order) < 0
    /\ mexp > 0
    /\ invResult.ok

(***************************************************************************)
(* C8: for an invertible B and any A, (A * B) * inverse(B) = A; with A the *)
(* identity, B * inverse(B) is the identity.  The entry [r][c] of the      *)
(* product is product.num[r][c] / product.den.                             *)
(***************************************************************************)
C8_ProductWithInverse ==
    pc = "product_done" =>
        /\ product.exp = 0
        /\ \A r \in Idx(order), c \in Idx(order) :
              product.num[r][c] = product.den * mA[r][c]

\* B is not symmetric, its determinant is neither 1 nor -1, A is not the identity
C8_Witness ==
    /\ pc = "product_done"
    /\ Abs(product.den) > 1
    /\ transpose(m4) # m4
    /\ mA # identity
    /\ mexp > 0

(***************************************************************************)
(* C3: at the turn of the walk that meets the target intersection, n1 is   *)
(* the refractive index of the last container before the target's shape is *)
(* toggled and n2 that of the last container after it (1.0 for an empty    *)
(* list); toggling appends an absent shape and removes a present one.  For *)
(* the spheres A(1.5), B(2.0), C(2.5) met as A,B,C,B,C,A the pairs are     *)
(* (1,1.5) (1.5,2) (2,2.5) (2.5,2.5) (2.5,1.5) (1.5,1).                    *)
(***************************************************************************)
TopIndex(containers) ==
    IF containers = <<>> THEN Q(1) ELSE Last(containers).material.refractive_index

NestedPairs ==
    <<<<Q(1), Frac(3, 2)>>, <<Frac(3, 2), Q(2)>>, <<Q(2), Frac(5, 2)>>,
      <<Frac(5, 2), Frac(5, 2)>>, <<Frac(5, 2), Frac(3, 2)>>, <<Frac(3, 2), Q(1)>>>>

C3_ContainerWalk ==
    /\ [](pc = "prepared" /\ prepXs = NestedXs =>
            \A k \in 1..Len(NestedXs) :
                prepTarget = NestedXs[k] =>
                    <<prepComps.n1, prepComps.n2>> = NestedPairs[k])
    /\ [][pc = "walk" /\ walkPos <= Len(prepXs) =>
            LET i == prepXs[walkPos]
                before == walkState.containers
                after == walkState'.containers
                present == \E k \in 1..Len(before) : before[k] = i.shape
            IN /\ present => after = SelectSeq(before, LAMBDA s : s # i.shape)
               /\ ~present => after = Append(before, i.shape)
               /\ i = prepTarget =>
                     /\ walkState'.n1 = TopIndex(before)
                     /\ walkState'.n2 = TopIndex(after)
               /\ i # prepTarget =>
                     /\ walkState'.n1 = walkState.n1
                     /\ walkState'.n2 = walkState.n2]_vars

\* the fourth intersection of the nested spheres: B is left while inside C
C3_Witness ==
    /\ pc = "prepared"
    /\ prepXs = NestedXs
    /\ prepTarget = NestedXs[4]
    /\ prepComps.n1 = Frac(5, 2)
    /\ prepComps.n2 = Frac(5, 2)
    /\ walkState.containers = <<>>

(***************************************************************************)
(* C2: World::intersect returns the multiset union of the intersections of *)
(* every shape of the world: its length is the sum of the per-shape        *)
(* counts, every intersection occurs as often as the shapes yield it, the  *)
(* result is in non-decreasing order of t, and the order of the shapes in  *)
(* the world does not change the t values returned.                        *)
(***************************************************************************)
Occurrences(s, v) == Cardinality({k \in 1..Len(s) : s[k] = v})

RECURSIVE SumOver(_, _, _)
SumOver(F(_), s, k) == IF k = 0 THEN 0 ELSE F(s[k]) + SumOver(F, s, k - 1)

Reversed(s) == [k \in 1..Len(s) |-> s[Len(s) + 1 - k]]

C2_IntersectIsSortedUnion ==
    pc = "intersected" =>
        LET PerShape(shape) == shape_intersect(shape, argRay)
            Count(shape) == Len(PerShape(shape))
            shapes == selfWorld.shapes
            candidates == {retXs[k] : k \in 1..Len(retXs)}
                          \cup UNION {{PerShape(shapes[j])[k] : k \in 1..Count(shapes[j])} :
                                        j \in 1..Len(shapes)}
        IN /\ Len(retXs) = SumOver(Count, shapes, Len(shapes))
           /\ \A v \in candidates :
                 LET CountOf(shape) == Occurrences(PerShape(shape), v)
                 IN Occurrences(retXs, v) = SumOver(CountOf, shapes, Len(shapes))
           /\ \A j, k \in 1..Len(retXs) : j < k => retXs[j].t <= retXs[k].t
           /\ [k \in 1..Len(retXs) |-> retXs[k].t]
                 = LET ys == intersect(World(selfWorld.light, Reversed(shapes)), argRay)
                   IN [k \in 1..Len(ys) |-> ys[k].t]

\* three shapes, two of them the same sphere, whose concatenated
\* intersections are out of order
C2_Witness ==
    /\ pc = "intersected"
    /\ Len(selfWorld.shapes) = 3
    /\ selfWorld.shapes[1] = selfWorld.shapes[3]
    /\ Len(retXs) = 5
    /\ \E k \in 1..4 : retXs[k].t = retXs[k + 1].t /\ retXs[k] # retXs[k + 1]
    /\ retXs # append_all(<<>>, selfWorld.shapes, argRay)

(***************************************************************************)
(* C10: Material::lighting always includes the ambient term, the effective *)
(* colour (the pattern's or the material's colour times the light's        *)
(* intensity) times the ambient coefficient: no channel of the result is   *)
(* below it; and with in_shadow the result is exactly the ambient term.    *)
(***************************************************************************)
AmbientTerm(args) ==
    LET base == IF args.material.pattern = NoPattern THEN args.material.color
                ELSE IF (args.point.x \div One) % 2 = 0 THEN args.material.pattern[1].a
                ELSE args.material.pattern[1].b
    IN Color(QMul(QMul(base.r, args.light.intensity.r), args.material.ambient),
             QMul(QMul(base.g, args.light.intensity.g), args.material.ambient),
             QMul(QMul(base.b, args.light.intensity.b), args.material.ambient))

C10_LightingAmbient ==
    pc = "lit" =>
        LET ambient == AmbientTerm(litArgs)
        IN /\ ~QLt(litResult.r, ambient.r)
           /\ ~QLt(litResult.g, ambient.g)
           /\ ~QLt(litResult.b, ambient.b)
           /\ litArgs.in_shadow => litResult = ambient

\* the case of lighting_with_the_surface_in_shadow: the light faces the
\* surface and the eye, and yet the shadow leaves the ambient 0.1 alone
C10_Witness ==
    /\ pc = "lit"
    /\ litArgs.in_shadow
    /\ litArgs.material = MaterialNew
    /\ litArgs.light = PointLight(white, point(0, 0, -10 * One))
    /\ litArgs.eyev = vector(0, 0, -1)
    /\ litArgs.normalv = vector(0, 0, -1)
    /\ litResult = Color(Frac(1, 10), Frac(1, 10), Frac(1, 10))
    /\ lighting(litArgs.material, litArgs.object, litArgs.light, litArgs.point,
                litArgs.eyev, litArgs.normalv, FALSE)
         = Color(Frac(19, 10), Frac(19, 10), Frac(19, 10))

(***************************************************************************)
(* C4: every call color_at(ray, remaining) terminates: whatever the world, *)
(* the ray and the budget, the outermost call returns, also between two    *)
(* mirrors (reflective = 1) that face each other; the calls in progress    *)
(* never outnumber the budget plus one, and every recursive call gets a    *)
(* smaller budget than its caller.                                         *)
(***************************************************************************)
C4_ColorAtTerminates ==
    /\ <>(pc = "traced")
    /\ [](pc = "trace" => Len(stack) <= traceRemaining + 1)
    /\ [][pc = "trace" /\ Len(stack') > Len(stack) =>
            stack'[Len(stack')].remaining < Top.remaining]_vars

\* between the facing mirrors the full budget is used up, one call per
\* bounce, and the trace has returned a colour
C4_Witness ==
    /\ pc = "traced"
    /\ traceWorld.shapes = <<Floor, Ceiling>>
    /\ traceRemaining = MaxRemaining
    /\ calls = MaxRemaining + 1
    /\ returned # None
    /\ returned # Some(black)

(***************************************************************************)
(* C5: with remaining = 0, reflected_color and refracted_color return      *)
(* black and make no recursive color_at call, whatever the material; and   *)
(* the exhausted budget is no error: the trace still returns a colour.     *)
(***************************************************************************)
C5_ExhaustedBudgetIsBlack ==
    /\ [][pc = "trace" /\ Top.remaining = 0
            /\ Top.pc \in {"reflected_color", "refracted_color"} =>
              /\ Len(stack') = Len(stack)
              /\ calls' = calls
              /\ Top.pc = "reflected_color" => stack'[Len(stack)].reflected = black
              /\ Top.pc = "refracted_color" => stack'[Len(stack)].refracted = black]_vars
    /\ [](pc = "traced" =>
            /\ returned # None
            /\ DOMAIN returned[1] = {"r", "g", "b"})

\* the innermost call, the budget used up, has hit the pane, which both
\* reflects and transmits, and got black for both
C5_Witness ==
    /\ pc = "trace"
    /\ Len(stack) = MaxRemaining + 1
    /\ Top.remaining = 0
    /\ Top.pc = "combine"
    /\ QGt(Top.comps.shape.material.reflective, Q(0))
    /\ QGt(Top.comps.shape.material.transparency, Q(0))
    /\ Top.reflected = black
    /\ Top.refracted = black

(***************************************************************************)
(* C9: shade_hit returns surface + reflected * reflectance + refracted *   *)
(* (1 - reflectance), reflectance from schlick, exactly when the material  *)
(* of the hit has reflective > 0 and transparency > 0, and the plain sum   *)
(* surface + reflected + refracted in every other case.                    *)
(***************************************************************************)
C9_ShadeHitBlend ==
    shaded # None =>
        LET call == shaded[1].call
            material == call.comps.shape.material
            reflectance == schlick(call.comps)
            Blend(s, r, t) == QAdd(QAdd(s, QMul(r, reflectance)),
                                   QMul(t, QSub(Q(1), reflectance)))
            Sum(s, r, t) == QAdd(QAdd(s, r), t)
        IN IF QGt(material.reflective, Q(0)) /\ QGt(material.transparency, Q(0))
           THEN shaded[1].color =
                  Color(Blend(call.surface.r, call.reflected.r, call.refracted.r),
                        Blend(call.surface.g, call.reflected.g, call.refracted.g),
                        Blend(call.surface.b, call.reflected.b, call.refracted.b))
           ELSE shaded[1].color =
                  Color(Sum(call.surface.r, call.reflected.r, call.refracted.r),
                        Sum(call.surface.g, call.reflected.g, call.refracted.g),
                        Sum(call.surface.b, call.reflected.b, call.refracted.b))

\* a hit on the pane with light coming back from both sides: the blend
\* with reflectance 1/4 differs from the plain sum
C9_Witness ==
    /\ shaded # None
    /\ shaded[1].call.comps.shape = Pane
    /\ shaded[1].call.reflected # black
    /\ shaded[1].call.refracted # black
    /\ schlick(shaded[1].call.comps) = Frac(1, 4)
    /\ shaded[1].color # CAdd(CAdd(shaded[1].call.surface, shaded[1].call.reflected),
                              shaded[1].call.refracted)

(***************************************************************************)
(* C6: Camera::render visits every pixel: each (x, y) with 0 <= x < hsize  *)
(* and 0 <= y < vsize is written exactly once and holds, in the returned   *)
(* canvas, the colour traced for its ray, the last row and the last column *)
(* included.                                                               *)
(***************************************************************************)
C6_RenderVisitsEveryPixel ==
    pc = "rendered" =>
        \A px \in 0..(camera.hsize - 1), py \in 0..(camera.vsize - 1) :
            /\ written[px][py] = 1
            /\ image[px][py] = traced[px][py]

\* what render does: the pixels before the last column and the last row
\* are written once with their traced colour, the others never, and stay
\* black
C6_RenderSkipsLastRowAndColumn ==
    pc = "rendered" =>
        \A px \in 0..(camera.hsize - 1), py \in 0..(camera.vsize - 1) :
            IF px < camera.hsize - 1 /\ py < camera.vsize - 1
            THEN written[px][py] = 1 /\ image[px][py] = traced[px][py]
            ELSE written[px][py] = 0 /\ image[px][py] = black

\* a 2 x 2 image comes back with (0, 0) traced and (1, 1) still black
C6_Witness ==
    /\ pc = "rendered"
    /\ camera = [hsize |-> 2, vsize |-> 2]
    /\ image[0][0] = traced[0][0]
    /\ image[1][1] = black
    /\ written[1][1] = 0

(***************************************************************************)
(* C11: is_shadowed(p) is true exactly when some shape meets the ray from  *)
(* p toward the light at a t >= 0 and the smallest such t is strictly      *)
(* below the distance from p to the light: it is false when nothing is     *)
(* met, when everything met is behind p (t < 0) and when the nearest       *)
(* shape met is at the light or beyond it.                                 *)
(***************************************************************************)
\* the t >= 0 at which the shapes of the world meet the ray from p to the light
ShadowRoots ==
    LET toLight == shadowWorld.light.position.y - shadowPoint.y
        ray == Ray(shadowPoint, vector(0, IF toLight > 0 THEN 1 ELSE -1, 0))
    IN {x.t : x \in UNION {{shape_intersect(shadowWorld.shapes[k], ray)[j] :
                               j \in 1..Len(shape_intersect(shadowWorld.shapes[k], ray))} :
                           k \in 1..Len(shadowWorld.shapes)}} \cap Nat

C11_IsShadowed ==
    pc = "shadow_tested" =>
        LET distance == Abs(shadowWorld.light.position.y - shadowPoint.y)
        IN shadowResult <=>
              /\ ShadowRoots # {}
              /\ \E t \in ShadowRoots : t < distance /\ \A u \in ShadowRoots : t <= u

\* between the light at y = 10 and the point at y = -5 lies the unit sphere;
\* the sphere beside the axis casts no shadow
C11_Witness ==
    /\ pc = "shadow_tested"
    /\ shadowWorld = World(PointLight(white, point(0, 10 * One, 0)),
                           <<[ShapeNew("Sphere") EXCEPT !.transform = translate(3 * One, 0, 0)],
                             ShapeNew("Sphere")>>)
    /\ shadowPoint = point(0, -5 * One, 0)
    /\ shadowResult = TRUE
    /\ ~is_shadowed(World(shadowWorld.light, <<shadowWorld.shapes[1]>>), shadowPoint)

\* the three negative cases: the sphere behind the point, the plane at the
\* light, the sphere beyond the light
C11_WitnessNotShadowed ==
    /\ pc = "shadow_tested"
    /\ shadowResult = FALSE
    /\ \/ /\ shadowPoint = point(0, 3 * One, 0)
          /\ shadowWorld = World(PointLight(white, point(0, 10 * One, 0)), <<ShapeNew("Sphere")>>)
       \/ /\ shadowPoint = point(0, 0, 0)
          /\ shadowWorld.light.position = point(0, 2 * One, 0)
          /\ Len(shadowWorld.shapes) = 1
          /\ shadowWorld.shapes[1].ty = "Plane"
          /\ ShadowRoots = {2 * One}

(***************************************************************************)
(* C12: addition and subtraction keep the discriminant w of points (1) and *)
(* vectors (0): point - point is a vector, point + vector and              *)
(* point - vector are points, vector + vector and vector - vector are      *)
(* vectors; and cross returns a vector whatever its operands are.          *)
(***************************************************************************)
C12_TupleDiscriminant ==
    pc = "tuple_done" =>
        /\ tupOp = "sub" /\ tupA.w = 1 /\ tupB.w = 1 => tupResult.w = 0
        /\ tupOp = "add" /\ tupA.w = 1 /\ tupB.w = 0 => tupResult.w = 1
        /\ tupOp = "sub" /\ tupA.w = 1 /\ tupB.w = 0 => tupResult.w = 1
        /\ tupOp \in {"add", "sub"} /\ tupA.w = 0 /\ tupB.w = 0 => tupResult.w = 0
        /\ tupOp = "cross" => tupResult.w = 0

\* subtract_two_points, scaled: a point minus a point with another x, y, z
C12_Witness ==
    /\ pc = "tuple_done"
    /\ tupOp = "sub"
    /\ tupA = point(1, 0, -1)
    /\ tupB = point(-1, 1, 1)
    /\ tupResult = vector(2, -1, -2)

\* the cross product of two points is still a vector
C12_WitnessCross ==
    /\ pc = "tuple_done"
    /\ tupOp = "cross"
    /\ tupA = point(1, 0, 0)
    /\ tupB = point(0, 1, 0)
    /\ tupResult = vector(0, 0, 1)

(***************************************************************************)
(* C13: the sphere intersection returns no intersection when the           *)
(* discriminant is negative and exactly two otherwise, equal for a tangent *)
(* ray, both of the intersected sphere and both at points of its surface;  *)
(* the unit sphere at the origin and the ray from (0,0,-5) along (0,0,1)   *)
(* give t = 4 and t = 6; a ray that starts inside the sphere gets one      *)
(* negative and one positive t.                                            *)
(***************************************************************************)
\* from the centre of the sphere sphShape to the origin of sphRay
SphereToOrigin == TSub(sphRay.origin, MatMulTuple(sphShape.transform, point(0, 0, 0)))

\* a quarter of the discriminant, in grid steps squared
SphereDiscriminant ==
    dot(sphRay.direction, SphereToOrigin) * dot(sphRay.direction, SphereToOrigin)
        - dot(sphRay.direction, sphRay.direction)
            * (dot(SphereToOrigin, SphereToOrigin) - One * One)

C13_SphereIntersections ==
    pc = "sphere_intersected" =>
        /\ SphereDiscriminant < 0 => sphXs = <<>>
        /\ SphereDiscriminant >= 0 =>
              /\ Len(sphXs) = 2
              /\ \A k \in 1..2 :
                    /\ sphXs[k].shape = sphShape
                    /\ LET r == TAdd(SphereToOrigin, TMul(sphRay.direction, sphXs[k].t))
                       IN dot(r, r) = One * One
              /\ (sphXs[1].t = sphXs[2].t) <=> (SphereDiscriminant = 0)
        /\ /\ sphShape.transform = identity
           /\ sphRay = Ray(point(0, 0, -5 * One), vector(0, 0, 1))
           => <<sphXs[1].t, sphXs[2].t>> = <<4 * One, 6 * One>>
        /\ dot(SphereToOrigin, SphereToOrigin) < One * One =>
              /\ Len(sphXs) = 2
              /\ \E j, k \in 1..2 : sphXs[j].t < 0 /\ sphXs[k].t > 0

\* ray_and_sphere_intersects_at_two_points
C13_Witness ==
    /\ pc = "sphere_intersected"
    /\ sphShape = ShapeNew("Sphere")
    /\ sphRay = Ray(point(0, 0, -5 * One), vector(0, 0, 1))
    /\ sphXs = <<Intersection(4 * One, sphShape), Intersection(6 * One, sphShape)>>

\* a tangent ray, a ray that misses, a ray from inside a moved sphere
C13_WitnessTangent ==
    /\ pc = "sphere_intersected"
    /\ SphereDiscriminant = 0
    /\ sphXs = <<Intersection(5 * One, sphShape), Intersection(5 * One, sphShape)>>

C13_WitnessMiss ==
    /\ pc = "sphere_intersected"
    /\ SphereDiscriminant < 0
    /\ sphXs = <<>>

C13_WitnessInside ==
    /\ pc = "sphere_intersected"
    /\ sphShape.transform = translate(0, One, 0)
    /\ sphRay = Ray(point(0, One, 2), vector(0, 0, -1))
    /\ sphXs = <<Intersection(2 - One, sphShape), Intersection(2 + One, sphShape)>>

(***************************************************************************)
(* C14: the canvas stores colours as they are given: get_pixel(x, y)       *)
(* returns the colour last given to set_pixel(x, y), also with channels    *)
(* outside [0, 1], and to_ppm leaves the stored colours alone.  Only the   *)
(* text of to_ppm is clamped: the channel c of a pixel is written as the   *)
(* whole number nearest to c * 255 cut to [0, 255], halves up, so every    *)
(* number written is in 0..255 (1.5 gives 255, -0.5 gives 0, 0.5 gives     *)
(* 128).                                                                   *)
(***************************************************************************)
\* the whole number nearest to c * 255 cut to [0, 255]
Quantized(c) ==
    IF QLt(c, Q(0)) THEN 0
    ELSE IF QGt(c, Q(1)) THEN 255
    ELSE CHOOSE n \in 0..255 :
            /\ 2 * n * c[2] - c[2] <= 510 * c[1]
            /\ 510 * c[1] < 2 * n * c[2] + c[2]

C14_CanvasStoresUnclamped ==
    /\ pc \in {"canvas", "got_pixel", "serialized"} => canvasPixels = lastSet
    /\ pc = "got_pixel" => gotPixel[1].color = lastSet[gotPixel[1].x][gotPixel[1].y]
    /\ pc = "serialized" =>
          /\ Len(ppm[1].rows) = canvas_height(lastSet)
          /\ \A y \in 1..Len(ppm[1].rows) :
                /\ Len(ppm[1].rows[y]) = canvas_width(lastSet)
                /\ \A x \in 1..Len(ppm[1].rows[y]) :
                      /\ \A k \in 1..3 : ppm[1].rows[y][x][k] \in 0..255
                      /\ ppm[1].rows[y][x] = <<Quantized(lastSet[x - 1][y - 1].r),
                                               Quantized(lastSet[x - 1][y - 1].g),
                                               Quantized(lastSet[x - 1][y - 1].b)>>

\* a colour outside [0, 1] read back as it was written
C14_Witness ==
    /\ pc = "got_pixel"
    /\ setCount = 2
    /\ gotPixel = Some([x |-> 1, y |-> 0, color |-> Color(Frac(-1, 2), Q(0), Q(1))])
    /\ canvasPixels[0][0] = Color(Frac(3, 2), Q(0), Q(0))

\* 1.5 is written as 255, 0.5 as 128, -0.5 as 0
C14_WitnessPpm ==
    /\ pc = "serialized"
    /\ ppm[1].header = <<"P3", <<2, 2>>, 255>>
    /\ ppm[1].rows = << <<(<<255, 0, 0>>), <<0, 0, 0>> >>, << <<0, 128, 0>>, <<0, 0, 0>> >> >>
    /\ canvasPixels[0][0].r = Frac(3, 2)

C14_WitnessNegative ==
    /\ pc = "serialized"
    /\ \E x \in DOMAIN canvasPixels : \E y \in DOMAIN canvasPixels[x] :
          /\ canvasPixels[x][y] = Color(Frac(-1, 2), Q(0), Q(1))
          /\ ppm[1].rows[y + 1][x + 1] = <<0, 0, 255>>

(***************************************************************************)
(* C15: the world is read-only while a ray is traced: no step of color_at, *)
(* intersect, shade_hit, is_shadowed, reflected_color or refracted_color,  *)
(* at any depth of the recursion, changes the light, the number or the     *)
(* order of the shapes, or the transform or material of a shape; the shape *)
(* of every hit being shaded is a shape of the world as it was given.      *)
(***************************************************************************)
C15_WorldReadOnly ==
    /\ [][/\ traceWorld'.light = traceWorld.light
          /\ Len(traceWorld'.shapes) = Len(traceWorld.shapes)
          /\ \A k \in 1..Len(traceWorld.shapes) :
                /\ traceWorld'.shapes[k].transform = traceWorld.shapes[k].transform
                /\ traceWorld'.shapes[k].material = traceWorld.shapes[k].material
                /\ traceWorld'.shapes[k] = traceWorld.shapes[k]]_vars
    /\ [](\A k \in 1..Len(stack) :
             stack[k].comps # Idle =>
                \E j \in 1..Len(traceWorld.shapes) : traceWorld.shapes[j] = stack[k].comps.shape)

\* at the deepest call between the mirrors, after every shading step of
\* the calls above it, the world is the one the trace began with
C15_Witness ==
    /\ pc = "trace"
    /\ Len(stack) = MaxRemaining + 1
    /\ Top.pc = "combine"
    /\ \A k \in 1..Len(stack) : stack[k].comps # Idle
    /\ traceWorld = World(PointLight(white, point(0, 0, 0)), <<Ceiling, Floor>>)

(***************************************************************************)
(* C16: the computation of a pixel writes one cell of the canvas, its own  *)
(* (x, y), with the colour traced for its ray, and leaves every other cell *)
(* as it was; the colour does not depend on the canvas.  So the            *)
(* computations of the pixels of the loops, run in any order, end with the *)
(* canvas that the loops of render return.                                 *)
(***************************************************************************)
C16_PixelsIndependent ==
    /\ [][pc = "tasks" /\ pending' # pending =>
            \E p \in pending \ pending' :
               /\ pending' = pending \ {p}
               /\ taskImage'[p[1]][p[2]] = taskTraced[p[1]][p[2]]
               /\ \A x \in DOMAIN taskImage : \A y \in DOMAIN taskImage[x] :
                     <<x, y>> # p => taskImage'[x][y] = taskImage[x][y]]_vars
    /\ [](pc = "tasks_done" => taskImage = render(taskCamera, taskTraced))

\* the four pixels of the loops on a 3 x 3 canvas, the last one run first
C16_Witness ==
    /\ pc = "tasks"
    /\ taskCamera = [hsize |-> 3, vsize |-> 3]
    /\ pending = {<<0, 0>>, <<1, 0>>, <<0, 1>>}
    /\ taskImage[1][1] = taskTraced[1][1]
    /\ taskImage[0][0] = black
    /\ render(taskCamera, taskTraced)[0][0] # black

C16_WitnessDone ==
    /\ pc = "tasks_done"
    /\ taskCamera = [hsize |-> 3, vsize |-> 3]
    /\ taskImage[1][1] = taskTraced[1][1]
    /\ taskImage[0][0] = taskTraced[0][0]

(***************************************************************************)
(* C17: the inverse of a translation always exists, and                    *)
(* inverse(translate(x, y, z)) * (translate(x, y, z) * p) = p for every    *)
(* point p; translate(x, y, z) * p is the point p moved by (x, y, z), and  *)
(* translate(x, y, z) * v = v for every vector v (w = 0).                  *)
(***************************************************************************)
C17_TranslateInverse ==
    /\ pc \in {"translated", "translated_back"} =>
          /\ trTuple.w = 0 => trMoved = Some(trTuple)
          /\ trTuple.w = 1 =>
                trMoved = Some(point(trTuple.x + trShift[1], trTuple.y + trShift[2],
                                     trTuple.z + trShift[3]))
    /\ pc = "translated_back" =>
          /\ trBack # None
          /\ trBack = Some(trTuple)

\* multiplying_by_the_inverse_of_a_translation_matrix, with a point that
\* the translation moves
C17_Witness ==
    /\ pc = "translated_back"
    /\ trShift = <<1, -1, 1>>
    /\ trTuple = point(-3, 0, 5)
    /\ trMoved = Some(point(-2, -1, 6))
    /\ trBack = Some(point(-3, 0, 5))

\* translation_does_not_affect_vectors
C17_WitnessVector ==
    /\ pc = "translated"
    /\ trShift = <<1, -1, 1>>
    /\ trTuple = vector(-3, 0, 5)
    /\ trMoved = Some(vector(-3, 0, 5))

(***************************************************************************)
(* C18: materials are copied, never shared: the material of a shape is     *)
(* what the calls on its own id have given it, so after                    *)
(* set_material(b, material(a)) a change of a's material through           *)
(* material_mut(a) or set_material(a, ..) leaves b's material as it was;   *)
(* and add_transform, material_mut and set_material on one id change the   *)
(* type, the transform and the material of no other id.                    *)
(***************************************************************************)
C18_MaterialsCopied ==
    /\ [](pc = "shape_handler" => materials = given)
    /\ [][pc = "shape_handler" =>
            \A id \in 0..(Len(types) - 1) :
                id # lastOp'[1].id =>
                    /\ At(types', id) = At(types, id)
                    /\ At(transforms', id) = At(transforms, id)
                    /\ At(materials', id) = At(materials, id)]_vars

\* shape 1 got a copy of the material of shape 0, then material_mut(0)
\* changed the ambient of shape 0 only
C18_Witness ==
    /\ pc = "shape_handler"
    /\ Len(types) = 2
    /\ opCount = 5
    /\ lastOp = Some([op |-> "material_mut", id |-> 0])
    /\ At(materials, 0) = [MaterialNew EXCEPT !.specular = Q(0), !.ambient = Q(1)]
    /\ At(materials, 1) = [MaterialNew EXCEPT !.specular = Q(0)]

(***************************************************************************)
(* C19: a call of intersect, normal or ray_for_pixel on a singular         *)
(* transform (one that sends some tuple other than zero to zero) ends with *)
(* the error of the failed inverse, "Matrix is not invertible", and        *)
(* returns nothing: no list of intersections, no normal and no ray comes   *)
(* from a singular transform.  The error ends the call as a panic of       *)
(* unwrap or expect.                                                       *)
(***************************************************************************)
\* some tuple other than zero is sent to zero
Singular(m) ==
    \E x \in -1..1, y \in -1..1, z \in -1..1, w \in -1..1 :
        /\ Tuple(x, y, z, w) # Tuple(0, 0, 0, 0)
        /\ MatMulTuple(m, Tuple(x, y, z, w)) = Tuple(0, 0, 0, 0)

C19_SingularTransformAborts ==
    /\ pc = "call_returned" => ~Singular(callTransform) /\ callValue # None /\ callPanic = None
    /\ pc \in {"call_returned", "call_panicked"} /\ Singular(callTransform) =>
          /\ pc = "call_panicked"
          /\ callValue = None
          /\ callPanic # None
          /\ callPanic[1].err = "Matrix is not invertible"

\* the intersect of a sphere scaled by 0 along x panics
C19_Witness ==
    /\ pc = "call_panicked"
    /\ callTransform = scale(0, 1, 1)
    /\ callOp = Some("intersect")
    /\ callValue = None
    /\ callPanic = Some([panic |-> "unwrap", err |-> "Matrix is not invertible"])

\* the ray of a camera whose transform is the zero matrix
C19_WitnessCamera ==
    /\ pc = "call_panicked"
    /\ callTransform = zero
    /\ callOp = Some("ray_for_pixel")
    /\ callPanic = Some([panic |-> "expect", err |-> "Matrix is not invertible"])

\* with an inverse the same calls return
C19_WitnessReturned ==
    /\ pc = "call_returned"
    /\ callTransform = translate(0, One, 0)
    /\ callOp = Some("ray_for_pixel")
    /\ callValue = Some(Ray(point(0, -One, 0), vector(0, 0, -1)))

(***************************************************************************)
(* C20: every color_at call that reflected_color or refracted_color makes  *)
(* gets the remaining of its caller minus one; in a trace that starts with *)
(* remaining >= 0 the call at depth k has remaining = initial - (k - 1),   *)
(* which is never negative, so there are never more than initial + 1       *)
(* calls in progress.                                                      *)
(***************************************************************************)
C20_BudgetCountsDown ==
    /\ [](pc = "trace" =>
            /\ \A k \in 1..Len(stack) :
                  /\ stack[k].remaining = traceRemaining - (k - 1)
                  /\ stack[k].remaining >= 0
            /\ Len(stack) - 1 <= traceRemaining)
    /\ [][pc = "trace" /\ Len(stack') = Len(stack) + 1 =>
            /\ Top.pc \in {"reflected_color", "refracted_color"}
            /\ stack'[Len(stack')].remaining = Top.remaining - 1
            /\ stack'[Len(stack')].pc = "color_at"]_vars

\* through the glass ball: every call but the last waits for the call that
\* its refracted_color made, and the last call has the budget 0
C20_Witness ==
    /\ pc = "trace"
    /\ traceRemaining = MaxRemaining
    /\ Len(stack) = MaxRemaining + 1
    /\ \A k \in 1..MaxRemaining : stack[k].pc = "refracted_wait"
    /\ Top.remaining = 0
    /\ Top.pc = "color_at"

(***************************************************************************)
(* C21: in every prepared-intersection record over_point = point +         *)
(* normalv * epsilon and under_point = point - normalv * epsilon, where    *)
(* normalv is the normal stored in the record (after the flip of a ray     *)
(* that starts inside the shape): over_point lies on the eye's side of the *)
(* surface and under_point on the opposite side, also when inside = true.  *)
(***************************************************************************)
C21_OverPointOnEyeSide ==
    pc = "prepared" =>
        /\ prepComps.over_point =
               TAdd(prepComps.point, TMul(prepComps.normalv, OVER_POINT_EPSILON))
        /\ prepComps.under_point =
               TSub(prepComps.point, TMul(prepComps.normalv, OVER_POINT_EPSILON))
        /\ dot(TSub(prepComps.over_point, prepComps.point), prepComps.eyev) > 0
        /\ dot(TSub(prepComps.under_point, prepComps.point), prepComps.eyev) < 0

\* what the code does: both points are offset along the normal of the shape,
\* taken before the flip, so that an inside hit has them on the other sides
C21_OverPointAlongShapeNormal ==
    pc = "prepared" =>
        LET n == normal(prepComps.shape, prepComps.point)
        IN /\ prepComps.over_point = TAdd(prepComps.point, TMul(n, OVER_POINT_EPSILON))
           /\ prepComps.under_point = TSub(prepComps.point, TMul(n, OVER_POINT_EPSILON))
           /\ prepComps.inside =>
                 /\ prepComps.normalv = TNeg(n)
                 /\ dot(TSub(prepComps.over_point, prepComps.point), prepComps.eyev) < 0
                 /\ dot(TSub(prepComps.under_point, prepComps.point), prepComps.eyev) > 0

\* the ray leaves the outer sphere at t = 6: the hit is on the inside
C21_Witness ==
    /\ pc = "prepared"
    /\ prepTarget = NestedXs[6]
    /\ prepComps.inside
    /\ prepComps.point = point(0, 0, 2 * One)
    /\ prepComps.normalv = vector(0, 0, -1)
    /\ prepComps.over_point = point(0, 0, 2 * One + OVER_POINT_EPSILON)

(***************************************************************************)
(* C22: prepare_computations sets inside = true and negates the normal     *)
(* exactly when the normal of the shape at the hit point has a negative    *)
(* dot product with the eye vector (the negated ray direction), and sets   *)
(* inside = false and keeps the normal otherwise; hence in every record    *)
(* normalv . eyev >= 0.                                                    *)
(***************************************************************************)
C22_InsideFlipsNormal ==
    pc = "prepared" =>
        LET n == normal(prepComps.shape, prepComps.point)
            negative == dot(n, prepComps.eyev) < 0
        IN /\ prepComps.eyev = TNeg(prepRay.direction)
           /\ prepComps.point = position(prepRay, prepTarget.t)
           /\ prepComps.inside = negative
           /\ prepComps.normalv = IF negative THEN TNeg(n) ELSE n
           /\ dot(prepComps.normalv, prepComps.eyev) >= 0

\* the ray leaves the sphere B at t = 4.75 with the normal turned back
C22_Witness ==
    /\ pc = "prepared"
    /\ prepTarget = NestedXs[4]
    /\ prepComps.inside
    /\ normal(prepComps.shape, prepComps.point) = vector(0, 0, 1)
    /\ prepComps.normalv = vector(0, 0, -1)

\* the ray enters the sphere A at t = 2 with the normal kept
C22_WitnessOutside ==
    /\ pc = "prepared"
    /\ prepTarget = NestedXs[1]
    /\ ~prepComps.inside
    /\ prepComps.normalv = normal(prepComps.shape, prepComps.point)
    /\ prepComps.normalv = vector(0, 0, -1)

(***************************************************************************)
(* C23: when several intersections share the smallest non-negative t, hit  *)
(* returns the one that comes first in the list it is given; World::       *)
(* intersect sorts stably, so among equal t values that is the             *)
(* intersection of the shape that comes first in the shape list of the     *)
(* world.                                                                  *)
(***************************************************************************)
FirstLowest(xs) ==
    CHOOSE k \in 1..Len(xs) :
        /\ xs[k].t >= 0
        /\ \A j \in 1..Len(xs) :
              xs[j].t >= 0 => \/ xs[j].t > xs[k].t
                              \/ xs[j].t = xs[k].t /\ j >= k

HitIsFirstLowest(xs) ==
    IF \A k \in 1..Len(xs) : xs[k].t < 0 THEN hit(xs) = None
    ELSE hit(xs) = Some(xs[FirstLowest(xs)])

\* the first shape of the world that the ray meets at t
FirstShapeAt(world, ray, t) ==
    LET Meets(j) ==
            LET xs == shape_intersect(world.shapes[j], ray)
            IN \E k \in 1..Len(xs) : xs[k].t = t
    IN world.shapes[CHOOSE j \in 1..Len(world.shapes) :
                        Meets(j) /\ \A e \in 1..(j - 1) : ~Meets(e)]

C23_HitKeepsFirstOfTies ==
    pc = "intersected" =>
        /\ HitIsFirstLowest(append_all(<<>>, selfWorld.shapes, argRay))
        /\ HitIsFirstLowest(retXs)
        /\ hit(retXs) # None =>
              hit(retXs)[1].shape = FirstShapeAt(selfWorld, argRay, hit(retXs)[1].t)

\* the plane y = 0 and the sphere above it are both met at t = 5; the plane
\* comes first in the world
C23_Witness ==
    /\ pc = "intersected"
    /\ selfWorld.shapes = <<ShapeNew("Plane"),
                            [ShapeNew("Sphere") EXCEPT !.transform = translate(0, One, 0)]>>
    /\ argRay = Ray(point(0, -5 * One, 0), vector(0, 1, 0))
    /\ retXs[1].t = retXs[2].t
    /\ retXs[2].shape.ty = "Sphere"
    /\ hit(retXs) = Some(Intersection(5 * One, ShapeNew("Plane")))

\* the same two shapes in the other order: the sphere is the hit
C23_WitnessSphereFirst ==
    /\ pc = "intersected"
    /\ selfWorld.shapes = <<[ShapeNew("Sphere") EXCEPT !.transform = translate(0, One, 0)],
                            ShapeNew("Plane")>>
    /\ argRay = Ray(point(0, -5 * One, 0), vector(0, 1, 0))
    /\ retXs[2].shape.ty = "Plane"
    /\ retXs[2].t = 5 * One
    /\ hit(retXs)[1].shape.ty = "Sphere"

(***************************************************************************)
(* C24: in the shape handle table a newly created shape has the identity   *)
(* transform and the default material, and add_transform(id, T) sets the   *)
(* transform of the shape to (previous transform x T): on a fresh shape    *)
(* transform(id) = T, and after add_transform(id, A) followed by           *)
(* add_transform(id, B) the transform is A x B.                            *)
(***************************************************************************)
\* T1 x T2 x ... x Tn, the identity for no transform at all
RECURSIVE ProductOf(_)
ProductOf(ts) ==
    IF ts = <<>> THEN identity
    ELSE IF Len(ts) = 1 THEN ts[1]
    ELSE MatMul(ProductOf(SubSeq(ts, 1, Len(ts) - 1)), ts[Len(ts)])

C24_AddTransformMultipliesOnTheRight ==
    pc = "shape_handler" =>
        /\ \A id \in 0..(Len(transforms) - 1) :
              At(transforms, id) = ProductOf(At(applied, id))
        /\ \A id \in 0..(Len(transforms) - 1) :
              lastOp = Some([op |-> "create_sphere", id |-> id]) =>
                  /\ At(transforms, id) = identity
                  /\ At(materials, id) = MaterialNew

\* add_transform(0, translate) then add_transform(0, scale)
C24_Witness ==
    /\ pc = "shape_handler"
    /\ Len(transforms) >= 1
    /\ At(applied, 0) = <<translate(2, 3, 4), scale(1, -1, 2)>>
    /\ At(transforms, 0) = MatMul(translate(2, 3, 4), scale(1, -1, 2))
    /\ At(transforms, 0) # MatMul(scale(1, -1, 2), translate(2, 3, 4))

\* one add_transform on a fresh shape
C24_WitnessFresh ==
    /\ pc = "shape_handler"
    /\ Len(transforms) >= 1
    /\ At(applied, 0) = <<translate(2, 3, 4)>>
    /\ At(transforms, 0) = translate(2, 3, 4)

(***************************************************************************)
(* C27: after any sequence of ShapeHandler operations the types,           *)
(* transforms and materials lists have the same length, equal to           *)
(* number_of_shapes(); create_sphere returns the ids 0, 1, 2, ... in       *)
(* creation order (each new id equals number_of_shapes() - 1 right after   *)
(* the creation and differs from every earlier id), and no operation       *)
(* removes or renumbers an existing shape.                                 *)
(***************************************************************************)
C27_ParallelListsAndIds ==
    /\ [](pc = "shape_handler" =>
            /\ Len(types) = number_of_shapes(Handler)
            /\ Len(transforms) = number_of_shapes(Handler)
            /\ Len(materials) = number_of_shapes(Handler)
            /\ created = [k \in 1..number_of_shapes(Handler) |-> k - 1]
            /\ \A j, k \in 1..Len(created) : j # k => created[j] # created[k]
            /\ \A id \in 0..MaxIds :
                  lastOp = Some([op |-> "create_sphere", id |-> id]) =>
                      id = number_of_shapes(Handler) - 1)
    /\ [][pc = "shape_handler" =>
            /\ Len(types') >= Len(types)
            /\ \A k \in 1..Len(types) : types'[k] = types[k]
            /\ created' \in {created, Append(created, Len(types))}
            /\ \A k \in 1..Len(types) :
                  lastOp'[1].id # k - 1 =>
                      /\ transforms'[k] = transforms[k]
                      /\ materials'[k] = materials[k]]_vars

\* three spheres created, the last after two calls on the first two
C27_Witness ==
    /\ pc = "shape_handler"
    /\ created = <<0, 1, 2>>
    /\ lastOp = Some([op |-> "create_sphere", id |-> 2])
    /\ number_of_shapes(Handler) = 3
    /\ opCount = 5
    /\ At(transforms, 0) # identity
    /\ At(materials, 1) # MaterialNew

(***************************************************************************)
(* C25: Canvas::new(w, h) yields a canvas with width() = w and height() =  *)
(* h whose every pixel is black, for all w >= 0 and h >= 0 (w = 0 with     *)
(* h > 0 included); set_pixel(x, y, c) changes only the cell (x, y) and    *)
(* leaves the dimensions and every other pixel unchanged.                  *)
(***************************************************************************)
\* the cells of a canvas, each with its colour
Cells(pixels) ==
    {<<x, y, pixels[x][y]>> : x \in 0..(canvas_width(pixels) - 1),
                              y \in 0..(canvas_height(pixels) - 1)}

\* a step of set_pixel keeps the dimensions and all cells but the one it sets
SetPixelFrame ==
    setCount' = setCount + 1 =>
        /\ canvas_width(canvasPixels') = canvas_width(canvasPixels)
        /\ canvas_height(canvasPixels') = canvas_height(canvasPixels)
        /\ DOMAIN canvasPixels' = DOMAIN canvasPixels
        /\ \A x \in DOMAIN canvasPixels : DOMAIN canvasPixels'[x] = DOMAIN canvasPixels[x]
        /\ \E x \in 0..(canvas_width(canvasPixels) - 1),
              y \in 0..(canvas_height(canvasPixels) - 1), c \in CanvasColors :
              /\ get_pixel(canvasPixels', x, y) = c
              /\ \A cell \in Cells(canvasPixels) :
                    <<cell[1], cell[2]>> # <<x, y>> => cell \in Cells(canvasPixels')

C25_CanvasNewKeepsBothSizes ==
    /\ [](pc = "canvas" =>
            /\ canvas_width(canvasPixels) = canvasArgs.width
            /\ canvas_height(canvasPixels) = canvasArgs.height
            /\ setCount = 0 => \A cell \in Cells(canvasPixels) : cell[3] = black)
    /\ [][SetPixelFrame]_vars

\* what the code does: a canvas of no columns has height() = 0 whatever
\* height it was given
C25_EmptyCanvasHasNoHeight ==
    /\ [](pc = "canvas" =>
            /\ canvas_width(canvasPixels) = canvasArgs.width
            /\ canvas_height(canvasPixels) =
                   IF canvasArgs.width = 0 THEN 0 ELSE canvasArgs.height
            /\ setCount = 0 =>
                  /\ \A cell \in Cells(canvasPixels) : cell[3] = black
                  /\ Cardinality(Cells(canvasPixels)) =
                         canvas_width(canvasPixels) * canvas_height(canvasPixels))
    /\ [][SetPixelFrame]_vars

\* Canvas::new(0, 2)
C25_Witness ==
    /\ pc = "canvas"
    /\ canvasArgs = [width |-> 0, height |-> 2]
    /\ canvas_width(canvasPixels) = 0
    /\ canvas_height(canvasPixels) = 0

(***************************************************************************)
(* C26: for every initial budget that i8 can hold, negative ones included, *)
(* a budget that is not positive stops the recursion: reflected_color and  *)
(* refracted_color return black without a recursive call whenever          *)
(* remaining <= 0, so remaining - 1 is never computed at the lowest i8     *)
(* value and the budget never overflows or wraps around to a positive      *)
(* value.                                                                  *)
(***************************************************************************)
\* the call of color_at that a step has just pushed
Callee == stack'[Len(stack')]

C26_NonPositiveBudgetStops ==
    /\ [](pc # "panicked")
    /\ [][pc = "trace" /\ calls' = calls + 1 =>
            /\ Top.remaining > 0
            /\ Callee.remaining = Top.remaining - 1]_vars

\* what the code does: reflected_color needs a positive budget, while
\* refracted_color only stops at 0 and goes on below it, down to the lowest
\* value, where remaining - 1 panics or wraps around to the highest
C26_RefractionGoesOnBelowZero ==
    /\ [](pc = "panicked" => Top.pc = "refracted_color" /\ Top.remaining = I8Min)
    /\ [][pc = "trace" /\ calls' = calls + 1 =>
            /\ Top.pc = "reflected_color" =>
                  /\ Top.remaining > 0
                  /\ Callee.remaining = Top.remaining - 1
            /\ Top.pc = "refracted_color" =>
                  /\ Top.remaining # 0
                  /\ Callee.remaining =
                         IF Top.remaining = I8Min THEN I8Max ELSE Top.remaining - 1]_vars

\* color_at(ray, -1) through the pane: refracted_color has called
\* color_at(refract_ray, -2)
C26_Witness ==
    /\ pc = "trace"
    /\ traceRemaining = -1
    /\ Len(stack) = 2
    /\ stack[1].pc = "refracted_wait"
    /\ Top.remaining = -2

\* the budget has wrapped around from the lowest to the highest value
C26_WitnessWrapped ==
    /\ pc = "trace"
    /\ Len(stack) >= 2
    /\ stack[Len(stack) - 1].pc = "refracted_wait"
    /\ stack[Len(stack) - 1].remaining = I8Min
    /\ Top.remaining = I8Max

\* remaining - 1 has panicked at the lowest value
C26_WitnessPanicked ==
    /\ pc = "panicked"
    /\ traceRemaining = I8Min + 1
    /\ Top.remaining = I8Min

(***************************************************************************)
(* C28: at every step of the walk in                                       *)
(* prepare_computations_with_intersections the container list holds no two *)
(* equal shapes, and a shape is in the list exactly when it has occurred   *)
(* an odd number of times among the intersections processed so far (the    *)
(* removal works at any position of the list, not only at the top); so     *)
(* when every shape occurs an even number of times in the intersection     *)
(* list, the container list is empty at the end of the walk.  Shapes are   *)
(* counted up to equality.                                                 *)
(***************************************************************************)
\* how often the entries processed so far refer to a shape equal to shape
TimesMet(shape) == Cardinality({k \in 1..(walkPos - 1) : prepXs[k].shape = shape})

Holds(containers, shape) == \E j \in 1..Len(containers) : containers[j] = shape

C28_ContainersHoldOddShapes ==
    /\ [](pc \in {"walk", "prepared"} =>
            LET containers == walkState.containers
            IN /\ \A j, k \in 1..Len(containers) : j # k => containers[j] # containers[k]
               /\ \A k \in 1..Len(prepXs) :
                     Holds(containers, prepXs[k].shape) <=> TimesMet(prepXs[k].shape) % 2 = 1
               /\ \A j \in 1..Len(containers) : TimesMet(containers[j]) % 2 = 1
               /\ (/\ walkPos > Len(prepXs)
                   /\ \A k \in 1..Len(prepXs) : TimesMet(prepXs[k].shape) % 2 = 0)
                     => containers = <<>>)
    /\ [][pc = "walk" /\ walkPos <= Len(prepXs) /\ Holds(walkState.containers, prepXs[walkPos].shape) =>
            \E k \in 1..Len(walkState.containers) :
                /\ walkState.containers[k] = prepXs[walkPos].shape
                /\ Len(walkState'.containers) = Len(walkState.containers) - 1
                /\ \A j \in 1..Len(walkState'.containers) :
                      walkState'.containers[j] =
                          walkState.containers[IF j < k THEN j ELSE j + 1]]_vars

\* A, B, A: the sphere A is taken out from under B
C28_Witness ==
    /\ pc = "walk"
    /\ prepFrom = "list"
    /\ walkPos = 4
    /\ SubSeq(prepIds, 1, 3) = <<1, 2, 1>>
    /\ walkState.containers = <<GlassB>>

\* A, B, B, A: every shape an even number of times, the list empty at the end
C28_WitnessEmpty ==
    /\ pc = "prepared"
    /\ prepIds = <<1, 2, 2, 1>>
    /\ walkState.containers = <<>>

(***************************************************************************)
(* C29: two distinct shapes of the world are tracked as separate           *)
(* containers even when their transform and material are identical:        *)
(* meeting an intersection of the second shape never removes the first     *)
(* shape from the container list, and the target intersection is matched   *)
(* only by the list entry of that same shape.                              *)
(***************************************************************************)
C29_DistinctShapesKeptApart ==
    [][pc = "walk" /\ walkPos <= Len(prepXs) =>
          LET shape_index == PositionOf(walkState.containers, prepXs[walkPos].shape)
          IN /\ shape_index # 0 => walkIds[shape_index] = prepIds[walkPos]
             /\ prepXs[walkPos] = prepTarget => prepIds[walkPos] = prepTargetId
             /\ prepIds[walkPos] # prepTargetId =>
                   /\ walkState'.n1 = walkState.n1
                   /\ walkState'.n2 = walkState.n2]_vars

\* what the code does: the containers are copies and == sees the values
\* only, so that an entry takes out the copy of any shape equal to its own
\* and every entry equal to the target counts as the target
C29_ShapesKeptApartByValueOnly ==
    /\ [](pc \in {"walk", "prepared"} =>
            /\ Len(walkIds) = Len(walkState.containers)
            /\ \A k \in 1..Len(walkIds) : walkState.containers[k] = prepShapes[walkIds[k]])
    /\ [][pc = "walk" /\ walkPos <= Len(prepXs) =>
            LET shape_index == PositionOf(walkState.containers, prepXs[walkPos].shape)
            IN /\ shape_index # 0 =>
                     prepShapes[walkIds[shape_index]] = prepShapes[prepIds[walkPos]]
               /\ prepXs[walkPos] = prepTarget =>
                     /\ prepShapes[prepIds[walkPos]] = prepShapes[prepTargetId]
                     /\ prepXs[walkPos].t = prepTarget.t]_vars

\* two equal glass spheres in one place: the entry of the second at t = 3
\* has taken out the first and has been taken for the target
C29_Witness ==
    /\ pc = "walk"
    /\ prepFrom = "color_at"
    /\ prepShapes = <<glass_sphere, glass_sphere>>
    /\ prepRay = NestedRay
    /\ prepIds = <<1, 2, 1, 2>>
    /\ prepTargetId = 1
    /\ walkPos = 3
    /\ walkIds = <<>>
    /\ walkState.n1 = Frac(3, 2)
    /\ walkState.n2 = Q(1)

(***************************************************************************)
(* C30: n1 and n2 are fixed at the first entry of the intersection list    *)
(* that equals the target intersection: no entry after it changes n1 or    *)
(* n2, a later entry with the same t and the same shape (the doubled root  *)
(* of a tangent hit) included; and when color_at calls it, the target (the *)
(* hit of intersect(ray)) is always a member of the list it passes, so     *)
(* that n1 and n2 never keep their initial 1.0 by omission.                *)
(***************************************************************************)
TargetMet == \E j \in 1..(walkPos - 1) : prepXs[j] = prepTarget

C30_FirstMatchFixesIndices ==
    /\ [](prepFrom = "color_at" => \E k \in 1..Len(prepXs) : prepXs[k] = prepTarget)
    /\ [](prepFrom = "color_at" /\ pc = "prepared" => TargetMet)
    /\ [][pc = "walk" /\ walkPos <= Len(prepXs) /\ TargetMet =>
            /\ walkState'.n1 = walkState.n1
            /\ walkState'.n2 = walkState.n2]_vars

\* what the code does: the loop has no break, and the last entry equal to
\* the target is the one that leaves its n1 and n2 in the record
ContainersAfter(n) == walk(WalkStart, SubSeq(prepXs, 1, n), prepTarget).containers

LastMatch ==
    CHOOSE k \in 1..Len(prepXs) :
        /\ prepXs[k] = prepTarget
        /\ \A j \in (k + 1)..Len(prepXs) : prepXs[j] # prepTarget

C30_LastMatchFixesIndices ==
    /\ prepFrom = "color_at" => \E k \in 1..Len(prepXs) : prepXs[k] = prepTarget
    /\ pc = "prepared" =>
          /\ prepComps.n1 = TopIndex(ContainersAfter(LastMatch - 1))
          /\ prepComps.n2 = TopIndex(ContainersAfter(LastMatch))

\* a ray that touches one glass sphere: the second root leaves n1 = 1.5 and
\* n2 = 1.0 where the first had n1 = 1.0 and n2 = 1.5
C30_Witness ==
    /\ pc = "prepared"
    /\ prepFrom = "color_at"
    /\ prepRay = TangentRay
    /\ prepShapes = <<glass_sphere>>
    /\ Len(prepXs) = 2
    /\ prepXs[1] = prepXs[2]
    /\ prepComps.n1 = Frac(3, 2)
    /\ prepComps.n2 = Q(1)

====
